---- MODULE Spec2Model ----
(***************************************************************************)
(* Model of the event-planning backend: the sponsorship negotiation        *)
(* stream and the candidate selector of backend/app/shopping_agent.py and  *)
(* the voice phase machine of backend/app/voice_agent.py.                  *)
(*                                                                         *)
(* Eight specifications share the module:                                   *)
(*   SpecSponsor  ShoppingAgent.stream_sponsorship_offers                  *)
(*   SpecSelect   _select_cart_item                                        *)
(*   SpecVoice    start_voice / voice_input and the VoiceAgent handlers    *)
(*   SpecCart     /submit-form and ShoppingAgent.build_cart                *)
(*   SpecFunctions the helper functions, each called on its own            *)
(*   SpecFunctionsFair  the same, a started call running to its end        *)
(*   SpecTool     check_retailer_sponsorship, called several times         *)
(*   SpecTts      generate_tts and get_cached_audio on the shared agent    *)
(* An optional Python value (None or a value) is a sequence of length 0    *)
(* or 1: None is << >>, a value x is << x >>.                                *)
(***************************************************************************)
EXTENDS Integers, Sequences, FiniteSets, TLC

VARIABLES
    \* ---- stream_sponsorship_offers ----
    sp_pc,          \* position of the generator: idle, gather, yield_start, yield_end, done
    retailer_items, \* the input mapping, in iteration order: sequence of [retailer, item_list]
    raw_results,    \* per entry: << >> while the call is running, << outcome >> once resolved
    resolved,       \* the offers after collection, one per entry
    sp_next,        \* index of the retailer the drip-feed loop is at
    events,         \* the events yielded so far
    \* ---- _select_cart_item ----
    candidates,     \* the candidate list passed in
    cart_item,      \* << >> before the call, << [recommended, cheapest, best_rating, fastest] >> after
    \* ---- the session of the voice flow (Context) ----
    voice_state,    \* context.voice_state: << >> (None) or << the state dict >>
    people_tree,    \* context.people_tree: top-level nodes, each with its children
    place_tree,     \* context.place_tree
    form_data,      \* context.form_data: << >> ({}) or the saved (label, content) pairs
    response,       \* the response of the last voice request
    last_request,   \* history: the last request and the phase it found
    chosen_labels,  \* history: the categories accepted in any selection round of this flow
    \* ---- /submit-form and build_cart ----
    sf_pc,          \* position of the response generator: idle, gather, done
    sf_form_data,   \* context.form_data as save_form left it
    shopping_list,  \* << >> or << [items, price_ranges, quantities] >>, the generated list
    search_entries, \* build_cart: the queries issued, in order
    results_list,   \* per query: << >> while the search runs, << outcome >> once it returned
    bc_return,      \* << >> or << the tuple build_cart returned >>
    sf_events,      \* the events of the response stream so far
    completed,      \* history: the queries in the order their searches came back
    \* ---- the helper functions, called on their own ----
    fn_call,        \* the call: [fn, ...] with the function's name and its arguments
    fn_result,      \* << >> before the call returns, << the value returned >> after
    \* ---- check_retailer_sponsorship, called several times ----
    tool_calls,     \* the calls made so far: arguments, generator, offer returned
    seeded_draws,   \* what the generator of each seed draws
    global_rng,     \* the state of the module-level generator of random (one of two)
    \* ---- generate_tts / get_cached_audio on the shared VoiceAgent ----
    tts_cache,      \* self.tts_cache: audio id -> audio
    tts_calls,      \* the generate_tts calls made so far, where each one is, and
                    \* which synthesis of its text (n) it invoked
    speech_create_count, \* text -> how often its synthesis was invoked
    tts_lookup      \* << >>, or << what the last get_cached_audio returned >>

sponsor_vars == << sp_pc, retailer_items, raw_results, resolved, sp_next, events >>
select_vars == << candidates, cart_item >>
voice_vars == << voice_state, people_tree, place_tree, form_data, response,
                last_request, chosen_labels >>
cart_vars == << sf_pc, sf_form_data, shopping_list, search_entries, results_list,
               bc_return, sf_events, completed >>
fn_vars == << fn_call, fn_result >>
tool_vars == << tool_calls, seeded_draws, global_rng >>
tts_vars == << tts_cache, tts_calls, speech_create_count, tts_lookup >>
vars == << sp_pc, retailer_items, raw_results, resolved, sp_next, events,
           candidates, cart_item,
           voice_state, people_tree, place_tree, form_data, response,
           last_request, chosen_labels,
           sf_pc, sf_form_data, shopping_list, search_entries, results_list,
           bc_return, sf_events, completed,
           fn_call, fn_result,
           tool_calls, seeded_draws, global_rng,
           tts_cache, tts_calls, speech_create_count, tts_lookup >>

(***************************************************************************)
(* Bounds of the model.                                                    *)
(***************************************************************************)
MaxRetailers == 3
MaxItems == 2
NumPercentSamples == 2
MaxCandidates == 3
MaxPrice == 2
MaxDays == 2
MaxRating == 2
MaxCategories == 2

Range(s) == { s[i] : i \in DOMAIN s }

RECURSIVE SumSeq(_)
SumSeq(s) == IF s = << >> THEN 0 ELSE Head(s) + SumSeq(Tail(s))

(***************************************************************************)
(* Sponsorship negotiation.                                                *)
(***************************************************************************)
RetailerNames == << "r1", "r2", "r3", "r4" >>
ItemNames == << "item1", "item2", "item3" >>

ForcedReason == "Sponsorship budget already committed for this event."

\* The discount steps the tool draws from: range(5, 55, 5); the model samples
\* the first NumPercentSamples of them.
SampledPercents == { 5 * k : k \in 1..NumPercentSamples }

NoOffer ==
    [ retailer |-> "", status |-> "", reason |-> "",
      discountPercent |-> << >>, discountedItems |-> << >> ]

\* check_retailer_sponsorship, rejected branch.
RejectedToolOffer(retailer) ==
    [ retailer |-> retailer, status |-> "rejected", reason |-> "reject_reason",
      discountPercent |-> << >>, discountedItems |-> << >> ]

OverallDiscount_of_discounted(discounted_items) ==
    SumSeq([ i \in 1..Len(discounted_items) |-> discounted_items[i].percent ])
        \div Cardinality({ i \in 1..Len(discounted_items) : discounted_items[i].percent # 0 })

\* overall_discount: int(sum of the percents / number of entries).
OverallDiscount(discounted_items) ==
    SumSeq([ i \in 1..Len(discounted_items) |-> discounted_items[i].percent ])
        \div Len(discounted_items)

\* check_retailer_sponsorship, approved branch, for lists of up to seven
\* entries (target_count is 1): every entry with the name of the sampled
\* entry (pick) gets the percent drawn for it, the others get 0.
ApprovedOfferWith(retailer, item_list, pick, percents) ==
    LET discounted ==
            [ i \in 1..Len(item_list) |->
                [ item |-> item_list[i],
                  percent |-> IF item_list[i] = item_list[pick] THEN percents[i] ELSE 0 ] ]
    IN  [ retailer |-> retailer, status |-> "approved", reason |-> "approve_reason",
          discountPercent |-> << OverallDiscount(discounted) >>,
          discountedItems |-> discounted ]

\* check_retailer_sponsorship, approved branch: the seeded generator picks
\* the discounted entry (pick) and its percent; the other entries get 0 and
\* the overall discount is the integer part of the mean over all entries.
ApprovedToolOffer(retailer, item_list, pick, percent) ==
    ApprovedOfferWith(retailer, item_list, pick, [ i \in 1..Len(item_list) |-> percent ])

\* What one negotiation call can resolve to: the tool's JSON object, an
\* exception, text that is not JSON, or JSON that is not an object.
ToolOutcomes(retailer, item_list) ==
    { [ kind |-> "json_object", offer |-> RejectedToolOffer(retailer) ] }
    \cup
    { [ kind |-> "json_object",
        offer |-> ApprovedToolOffer(retailer, item_list, pick, percent) ] :
        pick \in 1..Len(item_list), percent \in SampledPercents }
    \cup
    { [ kind |-> k, offer |-> NoOffer ] :
        k \in { "exception", "invalid_json", "json_non_object" } }

AutoRejected(retailer, reason) ==
    [ retailer |-> retailer, status |-> "rejected", reason |-> reason,
      discountPercent |-> << >>, discountedItems |-> << >> ]

Normalise_unchecked(retailer, raw) == raw.offer

\* "collect & normalise": one raw result to one offer.
Normalise(retailer, raw) ==
    CASE raw.kind = "exception" -> AutoRejected(retailer, "Tool error")
      [] raw.kind = "invalid_json" -> AutoRejected(retailer, "Invalid tool response")
      [] raw.kind = "json_non_object" -> AutoRejected(retailer, "Invalid tool response")
      [] OTHER -> raw.offer

Forced(offer) ==
    [ offer EXCEPT !.status = "rejected", !.reason = ForcedReason,
                   !.discountPercent = << >>, !.discountedItems = << >> ]

ForceRejection_never(all_offers) == all_offers

ForceRejection_last(all_offers) ==
    IF all_offers # << >> /\ \A i \in DOMAIN all_offers : all_offers[i].status = "approved"
    THEN [ all_offers EXCEPT ![Len(all_offers)] = Forced(all_offers[Len(all_offers)]) ]
    ELSE all_offers

\* "force at least one rejection when all approved".
ForceRejection(all_offers) ==
    IF all_offers # << >> /\ \A i \in DOMAIN all_offers : all_offers[i].status = "approved"
    THEN [ all_offers EXCEPT ![1] = Forced(all_offers[1]) ]
    ELSE all_offers

StartEvent(entry) ==
    [ phase |-> "start", retailer |-> entry.retailer,
      item_count |-> Len(entry.item_list), offer |-> NoOffer ]

EndEvent(offer) ==
    [ phase |-> "end", retailer |-> offer.retailer, item_count |-> 0, offer |-> offer ]

ItemLists == { SubSeq(ItemNames, 1, n) : n \in 1..MaxItems }

\* The input mappings: n distinct retailers in iteration order, each with
\* the items the cart sourced from it.
Batches ==
    UNION { { [ i \in 1..n |-> [ retailer |-> RetailerNames[i], item_list |-> lists[i] ] ] :
              lists \in [ 1..n -> ItemLists ] } : n \in 0..MaxRetailers }

SponsorInit ==
    /\ sp_pc = "idle"
    /\ retailer_items = << >>
    /\ raw_results = << >>
    /\ resolved = << >>
    /\ sp_next = 1
    /\ events = << >>

\* The call: "if not retailer_items: return", else one tool call per
\* retailer is started and the generator waits in asyncio.gather.
stream_sponsorship_offers_call ==
    /\ sp_pc = "idle"
    /\ \E batch \in Batches :
        /\ retailer_items' = batch
        /\ raw_results' = [ i \in DOMAIN batch |-> << >> ]
        /\ sp_pc' = IF batch = << >> THEN "done" ELSE "gather"
    /\ UNCHANGED << resolved, sp_next, events >>
    /\ UNCHANGED << select_vars, voice_vars, cart_vars, fn_vars, tool_vars, tts_vars >>

\* One of the concurrent tool calls resolves; the calls finish in any order.
check_retailer_sponsorship_returns ==
    /\ sp_pc = "gather"
    /\ \E i \in DOMAIN raw_results :
        /\ raw_results[i] = << >>
        /\ \E out \in ToolOutcomes(retailer_items[i].retailer, retailer_items[i].item_list) :
            raw_results' = [ raw_results EXCEPT ![i] = << out >> ]
    /\ UNCHANGED << sp_pc, retailer_items, resolved, sp_next, events >>
    /\ UNCHANGED << select_vars, voice_vars, cart_vars, fn_vars, tool_vars, tts_vars >>

\* gather returns once every call has resolved; the results are zipped
\* against the entries, normalised and the forced rejection applied.
stream_sponsorship_offers_collect ==
    /\ sp_pc = "gather"
    /\ \A i \in DOMAIN raw_results : raw_results[i] # << >>
    /\ resolved' = ForceRejection(
            [ i \in DOMAIN retailer_items |->
                Normalise(retailer_items[i].retailer, raw_results[i][1]) ])
    /\ sp_next' = 1
    /\ sp_pc' = "yield_start"
    /\ UNCHANGED << retailer_items, raw_results, events >>
    /\ UNCHANGED << select_vars, voice_vars, cart_vars, fn_vars, tool_vars, tts_vars >>

stream_sponsorship_offers_yield_start ==
    /\ sp_pc = "yield_start"
    /\ events' = Append(events, StartEvent(retailer_items[sp_next]))
    /\ sp_pc' = "yield_end"
    /\ UNCHANGED << retailer_items, raw_results, resolved, sp_next >>
    /\ UNCHANGED << select_vars, voice_vars, cart_vars, fn_vars, tool_vars, tts_vars >>

AfterEnd_return(position, offers) == "done"

\* The loop over the resolved offers goes on to the next retailer, if any.
AfterEnd(position, offers) == IF position = Len(offers) THEN "done" ELSE "yield_start"

stream_sponsorship_offers_yield_end ==
    /\ sp_pc = "yield_end"
    /\ events' = Append(events, EndEvent(resolved[sp_next]))
    /\ sp_next' = sp_next + 1
    /\ sp_pc' = AfterEnd(sp_next, resolved)
    /\ UNCHANGED << retailer_items, raw_results, resolved >>
    /\ UNCHANGED << select_vars, voice_vars, cart_vars, fn_vars, tool_vars, tts_vars >>

SponsorNext ==
    \/ stream_sponsorship_offers_call
    \/ check_retailer_sponsorship_returns
    \/ stream_sponsorship_offers_collect
    \/ stream_sponsorship_offers_yield_start
    \/ stream_sponsorship_offers_yield_end

(***************************************************************************)
(* Candidate selection.                                                    *)
(***************************************************************************)
\* Python's tuple order on keys of equal length.
RECURSIVE LexLess(_, _)
LexLess(a, b) ==
    /\ a # << >>
    /\ \/ Head(a) < Head(b)
       \/ Head(a) = Head(b) /\ LexLess(Tail(a), Tail(b))

\* min(seq, key=Key): the first element whose key no other element's key is below.
MinBy(seq, Key(_)) ==
    LET best == CHOOSE i \in DOMAIN seq :
                    /\ \A j \in DOMAIN seq : ~LexLess(Key(seq[j]), Key(seq[i]))
                    /\ \A j \in 1..(i - 1) : Key(seq[j]) # Key(seq[i])
    IN  seq[best]

CheapestKey(c) == << c.price, c.index >>
FastestKey(c) == << c.delivery_days, c.price, c.index >>
BestRatingKey_ascending(c) == << c.rating, c.price, c.index >>
BestRatingKey(c) == << 0 - c.rating, c.price, c.index >>

\* counts[picked.index] over (cheapest, fastest, best_rating); 0 when not picked.
PickCount(index, picks) == Cardinality({ k \in DOMAIN picks : picks[k].index = index })

RecommendedKey_cheapest(c, picks) == << c.price, c.index >>
RecommendedKey(c, picks) == << 0 - PickCount(c.index, picks), c.price, c.index >>

select_cart_item(cands) ==
    LET cheapest == MinBy(cands, CheapestKey)
        fastest == MinBy(cands, FastestKey)
        best_rating == MinBy(cands, BestRatingKey)
        picks == << cheapest, fastest, best_rating >>
        RecKey(c) == RecommendedKey(c, picks)
        recommended == MinBy(cands, RecKey)
    IN  [ recommended_item |-> recommended, cheapest_item |-> cheapest,
          best_rating_item |-> best_rating, fastest_delivery_item |-> fastest ]

CandidateAttributes == (1..MaxPrice) \X (1..MaxDays) \X (1..MaxRating)

\* The candidates build_cart makes of one query's search hits: hit number i
\* (from 0) becomes the candidate with index i.
CandidatesOf(hits) ==
    [ i \in DOMAIN hits |->
        [ price |-> hits[i][1], delivery_days |-> hits[i][2], rating |-> hits[i][3],
          index |-> i - 1 ] ]

SelectIdle ==
    /\ candidates = << >>
    /\ cart_item = << >>

SelectInit ==
    /\ \E n \in 1..MaxCandidates :
        \E hits \in [ 1..n -> CandidateAttributes ] : candidates = CandidatesOf(hits)
    /\ cart_item = << >>

select_cart_item_call ==
    /\ cart_item = << >>
    /\ candidates # << >>
    /\ cart_item' = << select_cart_item(candidates) >>
    /\ UNCHANGED candidates
    /\ UNCHANGED << sponsor_vars, voice_vars, cart_vars, fn_vars, tool_vars, tts_vars >>

(***************************************************************************)
(* Voice flow: utterances, the fuzzy matcher, yes/no, number words.        *)
(***************************************************************************)
Last(s) == s[Len(s)]
ButLast(s) == SubSeq(s, 1, Len(s) - 1)

\* The top-level labels the tree generator is prompted to emit, and the
\* children it may hang under each.
CategoryLabels == << "Food", "Drinks", "Entertainment", "Accommodation" >>
ChildLabels ==
    [ Food |-> << "Pizza", "Salad" >>,
      Drinks |-> << "Water", "Juice" >>,
      Entertainment |-> << "Music" >>,
      Accommodation |-> << "Hotel" >> ]

Labels_reversed(nodes) == [ i \in DOMAIN nodes |-> nodes[Len(nodes) + 1 - i].label ]
Labels(nodes) == [ i \in DOMAIN nodes |-> nodes[i].label ]

\* An utterance, as the matcher reads it against a list of labels: the
\* labels it contains literally (case-insensitively), and for every other
\* label the token-set similarity rapidfuzz computes.
ScoreOf(user_input, category) ==
    IF category \in user_input.contains THEN 100 ELSE user_input.ratio[category]

\* list.sort(key=score, reverse=True): stable, the first n entries sorted.
InsertByScore(sorted, m) ==
    LET k == Cardinality({ i \in DOMAIN sorted : sorted[i].score >= m.score })
    IN  SubSeq(sorted, 1, k) \o << m >> \o SubSeq(sorted, k + 1, Len(sorted))

RECURSIVE SortByScore(_, _)
SortByScore(s, n) ==
    IF n = 0 THEN << >> ELSE InsertByScore(SortByScore(s, n - 1), s[n])

MatchThreshold_inclusive(score) == score >= 50
MatchThreshold(score) == score > 50

fuzzy_match_categories(user_input, categories) ==
    IF categories = << >> THEN << >>
    ELSE LET scored == [ i \in DOMAIN categories |->
                          [ category |-> categories[i],
                            score |-> ScoreOf(user_input, categories[i]) ] ]
             Kept(m) == m.category \in user_input.contains \/ MatchThreshold(m.score)
             matched_categories == SelectSeq(scored, Kept)
         IN  SortByScore(matched_categories, Len(matched_categories))

\* The similarity scores the model feeds the matcher: the values next to
\* the thresholds the callers apply (50, 60, 70, 95).
CategoryScoreSamples == { 50, 70, 94, 95 }
SubcategoryScoreSamples == { 50, 60, 61 }

MatchUtterances(labels, samples) ==
    UNION { { [ contains |-> c, ratio |-> r ] : r \in [ (Range(labels) \ c) -> samples ] } :
            c \in SUBSET Range(labels) }

\* An utterance, as the keyword tests read it: the set of words spoken.
\* "word in text" is a substring test, so a spoken word also counts for
\* every keyword it contains.
SubstringPairs ==
    { << "correct", "incorrect" >>, << "no", "nope" >>, << "ok", "okay" >>,
      << "other", "another" >>, << "no", "another" >>, << "more", "more categories" >> }

Occurs(word, text) ==
    \E spoken \in text : spoken = word \/ << word, spoken >> \in SubstringPairs

AnyOccurs(words, text) == \E word \in words : Occurs(word, text)

PositiveWords == { "yes", "yeah", "yep", "sure", "correct", "right", "ok", "okay" }
NegativeWords == { "no", "nope", "nah", "incorrect", "wrong" }

\* True is "yes", False is "no", None is "unclear".
extract_yes_no(text) ==
    IF AnyOccurs(PositiveWords, text) THEN "yes"
    ELSE IF AnyOccurs(NegativeWords, text) THEN "no"
    ELSE "unclear"

\* The empty set is an utterance with none of the keywords.
YesNoUtterances == SUBSET { "yes", "no", "nope" }

RemainingWords == { "remaining", "rest", "other", "more categories", "what else" }
AddWords == { "add", "more", "another", "also" }
DoneWords_short == { "proceed", "ready", "continue", "yes", "finish" }
DoneWords == { "done", "proceed", "ready", "continue", "yes", "finish" }

CompletionUtterances == SUBSET { "remaining", "another", "add", "done" }

\* A token of a transcribed text: a word, or a string of digits with its value.
Word(w) == [ w |-> w, n |-> 0 - 1 ]
Digits(n) == [ w |-> "", n |-> n ]
IsDigit(token) == token.n >= 0

word_to_num ==
    [ zero |-> 0, one |-> 1, two |-> 2, three |-> 3, four |-> 4, five |-> 5,
      six |-> 6, seven |-> 7, eight |-> 8, nine |-> 9, ten |-> 10, eleven |-> 11,
      twelve |-> 12, thirteen |-> 13, fourteen |-> 14, fifteen |-> 15,
      sixteen |-> 16, seventeen |-> 17, eighteen |-> 18, nineteen |-> 19,
      twenty |-> 20, thirty |-> 30, forty |-> 40, fifty |-> 50, sixty |-> 60,
      seventy |-> 70, eighty |-> 80, ninety |-> 90, hundred |-> 100,
      thousand |-> 1000 ]

IsNumberWord(token) == ~IsDigit(token) /\ token.w \in DOMAIN word_to_num

\* str.lower() on the words the model speaks with a capital.
LowerCase == [ Main |-> "main", Street |-> "street" ]
Lower(token) ==
    IF ~IsDigit(token) /\ token.w \in DOMAIN LowerCase
    THEN Word(LowerCase[token.w]) ELSE token

\* The while loop of words_to_numbers from position i (from 1) on.
RECURSIVE words_to_numbers_from(_, _, _)
words_to_numbers_from(words, i, result) ==
    IF i > Len(words) THEN result
    ELSE LET word == words[i]
             after_digits == i > 1 /\ result # << >> /\ IsDigit(Last(result))
         IN  IF IsNumberWord(word)
             THEN IF after_digits /\ word.w = "hundred"
                  THEN words_to_numbers_from(words, i + 1,
                            Append(ButLast(result), Digits(Last(result).n * 100)))
                  ELSE IF after_digits /\ word.w = "thousand"
                  THEN words_to_numbers_from(words, i + 1,
                            Append(ButLast(result), Digits(Last(result).n * 1000)))
                  ELSE IF /\ i + 1 <= Len(words)
                          /\ IsNumberWord(words[i + 1])
                          /\ word_to_num[words[i + 1].w] < 10
                  THEN words_to_numbers_from(words, i + 2,
                            Append(result,
                                   Digits(word_to_num[word.w] + word_to_num[words[i + 1].w])))
                  ELSE words_to_numbers_from(words, i + 1,
                            Append(result, Digits(word_to_num[word.w])))
             ELSE words_to_numbers_from(words, i + 1, Append(result, word))

words_to_numbers_identity(text) == text

words_to_numbers(text) ==
    words_to_numbers_from([ i \in DOMAIN text |-> Lower(text[i]) ], 1, << >>)

\* What the user dictates for a form field.
FormUtterances ==
    { << Word("Main"), Word("Street"), Word("twenty"), Word("five") >> }

EventDescriptions == { "birthday party" }

(***************************************************************************)
(* Voice flow: the session, the trees and the phase handlers.  A handler   *)
(* is an operator from the state it finds (and what the collaborators      *)
(* return in that turn) to the state it leaves and the response.  The      *)
(* state dict is the object the session holds, so every assignment to it   *)
(* is persisted whether or not save_voice_state follows.  Text-to-speech   *)
(* is taken to succeed, except for the readout of the shopping list, the   *)
(* one synthesis that runs between two writes of the phase.                *)
(***************************************************************************)
FormLabels == << "Address", "Budget", "Date", "Duration (hours)", "Number of attendees" >>
FormKeys == << "address", "budget", "date", "duration (hours)", "number of attendees" >>

init_voice_state ==
    [ phase |-> "greeting",
      event_description |-> << >>,
      selected_categories |-> << >>,
      current_category_index |-> 0,
      pending_confirmation |-> << >>,
      form_fields |-> [ i \in DOMAIN FormLabels |-> [ label |-> FormLabels[i], value |-> << >> ] ],
      form_field_index |-> 0,
      shopping_list_items |-> << >>,
      shopping_list_generated |-> FALSE,
      cart |-> << >> ]

Reply(text, phase, listed) == [ text |-> text, phase |-> phase, listed |-> listed ]
NoResponse == Reply("", "", << >>)

handle_error(error_message) == Reply(error_message, "error", << >>)

\* An exception no handler catches: voice_input answers handle_error(str(e)).
Unhandled == handle_error("unhandled exception")

\* ---- what the tree generator can return ----
Leaf(label) == [ label |-> label, selected |-> FALSE, children |-> << >> ]

\* A category, with its children or (the schema allows it) with none.
CategoryNode(label, with_children) ==
    [ label |-> label, selected |-> FALSE,
      children |-> IF with_children
                   THEN [ j \in DOMAIN ChildLabels[label] |-> Leaf(ChildLabels[label][j]) ]
                   ELSE << >> ]

\* A tree whose first category holds a child with a selected child of its
\* own, neither the child nor the category being marked.
PreselectedTree ==
    << [ label |-> "Food", selected |-> FALSE,
         children |-> << [ label |-> "Pizza", selected |-> FALSE,
                           children |-> << [ label |-> "Vegan", selected |-> TRUE,
                                             children |-> << >> ] >> ],
                         Leaf("Salad") >> ] >>

\* The nodes the model passes to emit_people_tree.
EmittedPeopleTrees ==
    UNION { { [ i \in 1..n |-> CategoryNode(CategoryLabels[i], kids[i]) ] :
              kids \in [ 1..n -> BOOLEAN ] } : n \in 0..MaxCategories }
    \cup { PreselectedTree }

RECURSIVE propagate_selection(_)
\* _propagate_selection(nodes): children first, then the node is marked when
\* one of its children is.
propagate_selection(nodes) ==
    [ i \in DOMAIN nodes |->
        LET children == propagate_selection(nodes[i].children)
        IN  IF children # << >> /\ \E j \in DOMAIN children : children[j].selected
            THEN [ nodes[i] EXCEPT !.children = children, !.selected = TRUE ]
            ELSE [ nodes[i] EXCEPT !.children = children ] ]

\* _build_output_json("emit_people_tree", args): the nodes after propagation.
GeneratedPeopleTrees == { propagate_selection(nodes) : nodes \in EmittedPeopleTrees }

RECURSIVE SelectionClosed(_)
\* A node with a selected child is selected, at every depth.
SelectionClosed(nodes) ==
    \A i \in DOMAIN nodes :
        /\ (\E j \in DOMAIN nodes[i].children : nodes[i].children[j].selected)
              => nodes[i].selected
        /\ SelectionClosed(nodes[i].children)

GeneratedPlaceTree == << Leaf("Venue") >>

NoTrees == [ kind |-> "not called", people_tree |-> << >>, place_tree |-> << >> ]

TreeOutcomes ==
    { [ kind |-> "raises", people_tree |-> << >>, place_tree |-> << >> ],
      [ kind |-> "ok", people_tree |-> << >>, place_tree |-> << >> ] }
    \cup
    { [ kind |-> "ok", people_tree |-> t, place_tree |-> GeneratedPlaceTree ] :
        t \in GeneratedPeopleTrees }

\* ---- what shopping-list and cart generation can return ----
EmptyCart == [ items |-> << >>, price |-> 0 ]
WaterCart == [ items |-> << [ name |-> "Bottled Water", amount |-> 20, price |-> 150 ] >>,
               price |-> 3000 ]

\* A turn draws an outcome of a collaborator only when it calls it.
NotCalled == [ kind |-> "not called", items |-> << >>, cart |-> EmptyCart ]

ShoppingOutcomes ==
    { [ kind |-> "raises", items |-> << >>, cart |-> EmptyCart ],
      [ kind |-> "ok", items |-> << >>, cart |-> EmptyCart ],
      [ kind |-> "ok", items |-> << "Bottled Water" >>, cart |-> WaterCart ],
      [ kind |-> "ok", items |-> << "Bottled Water" >>, cart |-> EmptyCart ] }

\* ---- greeting ----
handle_greeting_phase_stays(state) ==
    [ state |-> state, response |-> Reply("greeting", "event_type", << >>) ]

handle_greeting_phase(state) ==
    [ state |-> [ state EXCEPT !.phase = "event_type" ],
      response |-> Reply("greeting", "event_type", << >>) ]

\* ---- event_type ----
handle_event_type_phase(state, trees, user_input, first, retry) ==
    LET described == [ state EXCEPT !.event_description = << user_input >> ]
        keep == [ state |-> described, people_tree |-> trees.people_tree,
                  place_tree |-> trees.place_tree ]
        retried == first.people_tree = << >> /\ first.place_tree = << >>
        got == IF retried THEN retry ELSE first
        saved == IF got.people_tree # << >> \/ got.place_tree # << >>
                 THEN [ keep EXCEPT !.people_tree = got.people_tree,
                                    !.place_tree = got.place_tree ]
                 ELSE keep
        categories == Labels(got.people_tree)
    IN  IF first.kind = "raises"
        THEN keep @@ [ response |-> handle_error("Failed to generate event plan") ]
        ELSE IF retried /\ retry.kind = "raises"
        THEN keep @@ [ response |-> Unhandled ]
        ELSE IF categories = << >>
        THEN saved @@ [ response |-> handle_error("I couldn't generate categories") ]
        ELSE [ saved EXCEPT !.state.phase = "category_selection" ]
             @@ [ response |-> Reply("main categories", "category_selection", categories) ]

\* ---- subcategory selection: the entry action ----
FindNode(tree, label) ==
    LET hits == { i \in DOMAIN tree : tree[i].label = label }
    IN  IF hits = { } THEN 0 ELSE CHOOSE i \in hits : \A j \in hits : i <= j

handle_completion_check_start == Reply("gone through", "completion_check", << >>)

start_subcategory_selection_prompts(state, tree) ==
    IF state.current_category_index >= Len(state.selected_categories)
    THEN [ state |-> [ state EXCEPT !.phase = "completion_check" ],
           response |-> handle_completion_check_start ]
    ELSE LET k == FindNode(tree, state.selected_categories[state.current_category_index + 1])
         IN  [ state |-> state,
               response |-> Reply("options", "subcategory_selection",
                                  IF k = 0 THEN << >> ELSE Labels(tree[k].children)) ]

RECURSIVE start_subcategory_selection(_, _)
start_subcategory_selection(state, tree) ==
    IF state.current_category_index >= Len(state.selected_categories)
    THEN [ state |-> [ state EXCEPT !.phase = "completion_check" ],
           response |-> handle_completion_check_start ]
    ELSE LET current_category == state.selected_categories[state.current_category_index + 1]
             k == FindNode(tree, current_category)
         IN  IF k = 0 \/ tree[k].children = << >>
             THEN start_subcategory_selection(
                      [ state EXCEPT !.current_category_index = @ + 1 ], tree)
             ELSE [ state |-> state,
                    response |-> Reply("options", "subcategory_selection",
                                       Labels(tree[k].children)) ]

\* ---- category_selection ----
IsPerfect(score) == score >= 95
IsHighConfidence_50(score) == score > 50
IsHighConfidence(score) == score > 70

Categories(matches) == [ i \in DOMAIN matches |-> matches[i].category ]

handle_category_selection_phase(state, tree, user_input) ==
    LET matches == fuzzy_match_categories(user_input, Labels(tree))
        all_perfect == \A i \in DOMAIN matches : IsPerfect(matches[i].score)
        High(m) == IsHighConfidence(m.score)
        high_confidence == Categories(SelectSeq(matches, High))
    IN  IF matches = << >>
        THEN [ state |-> state,
               response |-> Reply("no valid categories", "category_selection", << >>) ]
        ELSE IF all_perfect /\ high_confidence # << >>
        THEN start_subcategory_selection(
                 [ state EXCEPT !.selected_categories = high_confidence,
                                !.current_category_index = 0,
                                !.phase = "subcategory_selection" ], tree)
        ELSE IF high_confidence # << >>
        THEN [ state |-> [ state EXCEPT !.pending_confirmation = << high_confidence >>,
                                        !.phase = "category_confirmation" ],
               response |-> Reply("is that correct", "category_confirmation", high_confidence) ]
        ELSE [ state |-> state,
               response |-> Reply("not sure", "category_selection",
                                  << matches[1].category >>) ]

\* ---- category_confirmation ----
\* state["pending_confirmation"] = None
ClearPending_kept(state) == state
ClearPending(state) == [ state EXCEPT !.pending_confirmation = << >> ]

handle_category_confirmation(state, tree, user_input) ==
    LET confirmation == extract_yes_no(user_input)
    IN  IF state.pending_confirmation = << >> /\ confirmation = "yes"
        THEN [ state |-> state, response |-> Unhandled ]
        ELSE IF confirmation = "yes"
        THEN start_subcategory_selection(
                 [ ClearPending(state) EXCEPT
                       !.selected_categories = state.pending_confirmation[1],
                       !.current_category_index = 0,
                       !.phase = "subcategory_selection" ], tree)
        ELSE IF confirmation = "no"
        THEN [ state |-> [ ClearPending(state) EXCEPT !.phase = "category_selection" ],
               response |-> Reply("which categories", "category_selection", << >>) ]
        ELSE [ state |-> state,
               response |-> Reply("say yes or no", "category_confirmation", << >>) ]

\* ---- subcategory_selection ----
SubcategoryThreshold_50(score) == score > 50
SubcategoryThreshold(score) == score > 60

MarkChildren(children, matched_items) ==
    [ j \in DOMAIN children |->
        IF children[j].label \in Range(matched_items)
        THEN [ children[j] EXCEPT !.selected = TRUE ] ELSE children[j] ]

MarkParent_unmarked(node) == node
MarkParent(node) == [ node EXCEPT !.selected = TRUE ]

handle_subcategory_selection_phase(state, tree, user_input) ==
    IF state.current_category_index >= Len(state.selected_categories)
    THEN [ state |-> [ state EXCEPT !.phase = "completion_check" ],
           people_tree |-> tree, response |-> handle_completion_check_start ]
    ELSE LET current_category == state.selected_categories[state.current_category_index + 1]
             k == FindNode(tree, current_category)
             subcategories == Labels(tree[k].children)
             matches == fuzzy_match_categories(user_input, subcategories)
             Over(m) == SubcategoryThreshold(m.score)
             over == Categories(SelectSeq(matches, Over))
             matched_items == IF over # << >> THEN over
                              ELSE IF matches[1].score > 50 THEN << matches[1].category >>
                              ELSE << >>
             marked == [ tree EXCEPT ![k] =
                           MarkParent([ @ EXCEPT !.children = MarkChildren(@, matched_items) ]) ]
             next == start_subcategory_selection(
                         [ state EXCEPT !.current_category_index = @ + 1 ], marked)
         IN  IF k = 0
             THEN [ state |-> state, people_tree |-> tree,
                    response |-> handle_error("Category not found") ]
             ELSE IF matches = << >> /\ subcategories = << >>
             THEN [ state |-> state, people_tree |-> tree, response |-> Unhandled ]
             ELSE IF matches = << >>
             THEN [ state |-> state, people_tree |-> tree,
                    response |-> Reply("no valid subcategories", "subcategory_selection",
                                       subcategories) ]
             ELSE [ state |-> next.state, people_tree |-> marked, response |-> next.response ]

\* ---- shopping list and cart generation (generate_shopping_list) ----
Generated_without_cart(state, outcome) ==
    [ state EXCEPT !.shopping_list_items = outcome.items,
                   !.shopping_list_generated = TRUE,
                   !.phase = "shopping_list_readout_prompt" ]

Generated(state, outcome) ==
    [ state EXCEPT !.shopping_list_items = outcome.items,
                   !.shopping_list_generated = TRUE,
                   !.cart = << outcome.cart >>,
                   !.phase = "shopping_list_readout_prompt" ]

generate_shopping_list_sinks(state, form, outcome) ==
    IF outcome.kind = "raises"
    THEN [ state |-> [ state EXCEPT !.phase = "error" ], form_data |-> form,
           response |-> Unhandled ]
    ELSE [ state |-> Generated(state, outcome), form_data |-> form,
           response |-> Reply("read it out", "shopping_list_readout_prompt", << >>) ]

generate_shopping_list(state, form, outcome) ==
    IF outcome.kind = "raises"
    THEN [ state |-> state, form_data |-> form, response |-> Unhandled ]
    ELSE [ state |-> Generated(state, outcome), form_data |-> form,
           response |-> Reply("read it out", "shopping_list_readout_prompt", << >>) ]

\* ---- form collection ----
start_form_collection(state, form, outcome) ==
    IF state.form_field_index >= Len(state.form_fields)
    THEN generate_shopping_list(state, form, outcome)
    ELSE [ state |-> state, form_data |-> form,
           response |-> Reply("what is the", "form_collection",
                              << state.form_fields[state.form_field_index + 1].label >>) ]

\* Context.save_form: lower-cased label -> content.
save_form(form_fields) ==
    [ i \in DOMAIN form_fields |->
        [ key |-> FormKeys[i],
          content |-> IF form_fields[i].value = << >> THEN << >> ELSE form_fields[i].value[1] ] ]

StoreField_next(form_fields, field_index, value) ==
    [ form_fields EXCEPT ![((field_index + 1) % Len(form_fields)) + 1].value = << value >> ]

StoreField(form_fields, field_index, value) ==
    [ form_fields EXCEPT ![field_index + 1].value = << value >> ]

handle_form_collection_phase(state, form, user_input, outcome) ==
    IF state.form_field_index >= Len(state.form_fields)
    THEN generate_shopping_list(state, form, outcome)
    ELSE LET processed_input == words_to_numbers(user_input)
             filled == [ state EXCEPT
                           !.form_fields = StoreField(@, state.form_field_index, processed_input),
                           !.form_field_index = @ + 1 ]
         IN  IF filled.form_field_index >= Len(filled.form_fields)
             THEN IF outcome.kind = "raises"
                  THEN [ state |-> filled, form_data |-> save_form(filled.form_fields),
                         response |-> handle_error("Failed to generate shopping list") ]
                  ELSE [ state |-> Generated(filled, outcome),
                         form_data |-> save_form(filled.form_fields),
                         response |-> Reply("prepared your shopping list",
                                            "shopping_list_readout_prompt", << >>) ]
             ELSE [ state |-> filled, form_data |-> form,
                    response |-> Reply("got it, what is the", "form_collection",
                                       << filled.form_fields[filled.form_field_index + 1].label >>) ]

\* ---- completion_check ----
Remaining(tree, selected_cats) ==
    LET Unselected(node) == node.label \notin Range(selected_cats)
    IN  Labels(SelectSeq(tree, Unselected))

handle_completion_check_phase(state, tree, form, user_input, outcome) ==
    IF AnyOccurs(RemainingWords, user_input)
    THEN LET remaining == Remaining(tree, state.selected_categories)
         IN  IF remaining # << >>
             THEN [ state |-> [ state EXCEPT !.phase = "category_selection" ],
                    form_data |-> form,
                    response |-> Reply("the remaining categories are", "category_selection",
                                       remaining) ]
             ELSE [ state |-> state, form_data |-> form,
                    response |-> Reply("no remaining categories", state.phase, << >>) ]
    ELSE IF AnyOccurs(AddWords, user_input)
    THEN [ state |-> [ state EXCEPT !.phase = "category_selection" ], form_data |-> form,
           response |-> Reply("which additional categories", "category_selection", << >>) ]
    ELSE IF AnyOccurs(DoneWords, user_input)
    THEN start_form_collection(
             [ state EXCEPT !.phase = "form_collection", !.form_field_index = 0 ],
             form, outcome)
    ELSE [ state |-> state, form_data |-> form,
           response |-> Reply("remaining, add more, or done", "completion_check", << >>) ]

\* ---- shopping list readout and purchase ----
CartOf(state) == IF state.cart = << >> THEN EmptyCart ELSE state.cart[1]

read_shopping_list_stays(state) ==
    [ state |-> state,
      response |-> Reply("here is your shopping list", state.phase, << >>) ]

read_shopping_list(state) ==
    [ state |-> [ state EXCEPT !.phase = "purchase_confirmation" ],
      response |-> IF CartOf(state).items = << >>
                   THEN Reply("the shopping list is empty", "purchase_confirmation", << >>)
                   ELSE Reply("here is your shopping list", "purchase_confirmation",
                              [ i \in DOMAIN CartOf(state).items |-> CartOf(state).items[i].name ]) ]

start_purchase_confirmation(state) ==
    [ state |-> state,
      response |-> Reply("continue with the purchase", "purchase_confirmation", << >>) ]

handle_shopping_list_prompt(state, user_input) ==
    LET confirmation == extract_yes_no(user_input)
    IN  IF confirmation = "yes"
        THEN read_shopping_list([ state EXCEPT !.phase = "shopping_list_readout" ])
        ELSE IF confirmation = "no"
        THEN start_purchase_confirmation([ state EXCEPT !.phase = "purchase_confirmation" ])
        ELSE [ state |-> state,
               response |-> Reply("read out, yes or no", "shopping_list_readout_prompt", << >>) ]

handle_purchase_confirmation_no_stays(state, user_input) ==
    LET confirmation == extract_yes_no(user_input)
        after == IF confirmation = "yes" THEN [ state EXCEPT !.phase = "done" ] ELSE state
    IN  [ state |-> after,
          response |-> Reply(IF confirmation = "yes" THEN "purchase was successful"
                             ELSE "saved for later", after.phase, << >>) ]

handle_purchase_confirmation_reports_done(state, user_input) ==
    LET confirmation == extract_yes_no(user_input)
        after == IF confirmation \in { "yes", "no" }
                 THEN [ state EXCEPT !.phase = "done" ] ELSE state
    IN  [ state |-> after, response |-> Reply("purchase was successful", "done", << >>) ]

handle_purchase_confirmation(state, user_input) ==
    LET confirmation == extract_yes_no(user_input)
        after == IF confirmation \in { "yes", "no" }
                 THEN [ state EXCEPT !.phase = "done" ] ELSE state
        text == IF confirmation = "yes" THEN "purchase was successful"
                ELSE IF confirmation = "no" THEN "saved for later"
                ELSE "purchase, yes or no"
    IN  [ state |-> after, response |-> Reply(text, after.phase, << >>) ]

handle_done_phase_restarts(state) ==
    [ state |-> [ state EXCEPT !.phase = "greeting" ],
      response |-> Reply("session is complete", "done", << >>) ]

handle_done_phase(state) ==
    [ state |-> state, response |-> Reply("session is complete", "done", << >>) ]

(***************************************************************************)
(* Voice flow: the requests.  Requests of one session are served one at a  *)
(* time, each as one step.                                                 *)
(***************************************************************************)
VS == voice_state[1]
PhaseIs(phase) == voice_state # << >> /\ VS.phase = phase

VoiceIdle ==
    /\ voice_state = << >>
    /\ people_tree = << >>
    /\ place_tree = << >>
    /\ form_data = << >>
    /\ response = NoResponse
    /\ last_request = [ op |-> "none", phase |-> "none" ]
    /\ chosen_labels = { }

Served(phase) == last_request' = [ op |-> "voice_input", phase |-> phase ]

\* POST /start-voice: a fresh state, then the greeting.
start_voice ==
    /\ LET greeted == handle_greeting_phase(init_voice_state)
       IN  /\ voice_state' = << greeted.state >>
           /\ response' = greeted.response
    /\ last_request' = [ op |-> "start_voice",
                         phase |-> IF voice_state = << >> THEN "none" ELSE VS.phase ]
    /\ chosen_labels' = { }
    /\ UNCHANGED << people_tree, place_tree, form_data >>
    /\ UNCHANGED << sponsor_vars, select_vars, cart_vars, fn_vars, tool_vars, tts_vars >>

\* POST /voice-input on a session without voice state (or still greeting).
voice_input_greeting ==
    /\ voice_state = << >> \/ PhaseIs("greeting")
    /\ LET greeted == handle_greeting_phase(
                          IF voice_state = << >> THEN init_voice_state ELSE VS)
       IN  /\ voice_state' = << greeted.state >>
           /\ response' = greeted.response
    /\ Served(IF voice_state = << >> THEN "none" ELSE "greeting")
    /\ chosen_labels' = { }
    /\ UNCHANGED << people_tree, place_tree, form_data >>
    /\ UNCHANGED << sponsor_vars, select_vars, cart_vars, fn_vars, tool_vars, tts_vars >>

EventTypeTurn(user_input, first, retry) ==
    /\ PhaseIs("event_type")
    /\ LET r == handle_event_type_phase(
                    VS, [ people_tree |-> people_tree, place_tree |-> place_tree ],
                    user_input, first, retry)
       IN  /\ voice_state' = << r.state >>
           /\ people_tree' = r.people_tree
           /\ place_tree' = r.place_tree
           /\ response' = r.response
    /\ Served("event_type")
    /\ UNCHANGED << form_data, chosen_labels >>
    /\ UNCHANGED << sponsor_vars, select_vars, cart_vars, fn_vars, tool_vars, tts_vars >>

\* The retry is made when the first generation returned two empty forests.
RetryOutcomes(first) ==
    IF first.kind = "ok" /\ first.people_tree = << >> /\ first.place_tree = << >>
    THEN TreeOutcomes ELSE { NoTrees }

voice_input_event_type ==
    \E user_input \in EventDescriptions, first \in TreeOutcomes :
        \E retry \in RetryOutcomes(first) : EventTypeTurn(user_input, first, retry)

Accepted(before, after) ==
    IF before.phase # after.phase /\ after.phase \in { "subcategory_selection", "completion_check" }
    THEN Range(after.selected_categories) ELSE { }

CategorySelectionTurn(user_input) ==
    /\ PhaseIs("category_selection")
    /\ LET r == handle_category_selection_phase(VS, people_tree, user_input)
       IN  /\ voice_state' = << r.state >>
           /\ response' = r.response
           /\ chosen_labels' = chosen_labels \cup Accepted(VS, r.state)
    /\ Served("category_selection")
    /\ UNCHANGED << people_tree, place_tree, form_data >>
    /\ UNCHANGED << sponsor_vars, select_vars, cart_vars, fn_vars, tool_vars, tts_vars >>

voice_input_category_selection ==
    \E user_input \in MatchUtterances(Labels(people_tree), CategoryScoreSamples) :
        CategorySelectionTurn(user_input)

CategoryConfirmationTurn(user_input) ==
    /\ PhaseIs("category_confirmation")
    /\ LET r == handle_category_confirmation(VS, people_tree, user_input)
       IN  /\ voice_state' = << r.state >>
           /\ response' = r.response
           /\ chosen_labels' = chosen_labels \cup Accepted(VS, r.state)
    /\ Served("category_confirmation")
    /\ UNCHANGED << people_tree, place_tree, form_data >>
    /\ UNCHANGED << sponsor_vars, select_vars, cart_vars, fn_vars, tool_vars, tts_vars >>

voice_input_category_confirmation ==
    \E user_input \in YesNoUtterances : CategoryConfirmationTurn(user_input)

\* The children the utterance of a subcategory turn is matched against.
CurrentChildren ==
    IF VS.current_category_index >= Len(VS.selected_categories) THEN << >>
    ELSE LET k == FindNode(people_tree, VS.selected_categories[VS.current_category_index + 1])
         IN  IF k = 0 THEN << >> ELSE Labels(people_tree[k].children)

SubcategorySelectionTurn(user_input) ==
    /\ PhaseIs("subcategory_selection")
    /\ LET r == handle_subcategory_selection_phase(VS, people_tree, user_input)
       IN  /\ voice_state' = << r.state >>
           /\ people_tree' = r.people_tree
           /\ response' = r.response
    /\ Served("subcategory_selection")
    /\ UNCHANGED << place_tree, form_data, chosen_labels >>
    /\ UNCHANGED << sponsor_vars, select_vars, cart_vars, fn_vars, tool_vars, tts_vars >>

voice_input_subcategory_selection ==
    /\ PhaseIs("subcategory_selection")
    /\ \E user_input \in MatchUtterances(CurrentChildren, SubcategoryScoreSamples) :
        SubcategorySelectionTurn(user_input)

CompletionCheckTurn(user_input, outcome) ==
    /\ PhaseIs("completion_check")
    /\ LET r == handle_completion_check_phase(VS, people_tree, form_data, user_input, outcome)
       IN  /\ voice_state' = << r.state >>
           /\ form_data' = r.form_data
           /\ response' = r.response
    /\ Served("completion_check")
    /\ UNCHANGED << people_tree, place_tree, chosen_labels >>
    /\ UNCHANGED << sponsor_vars, select_vars, cart_vars, fn_vars, tool_vars, tts_vars >>

\* start_form_collection generates only when no field is left to ask at index 0.
CompletionCheckOutcomes ==
    IF Len(VS.form_fields) = 0 THEN ShoppingOutcomes ELSE { NotCalled }

voice_input_completion_check ==
    /\ PhaseIs("completion_check")
    /\ \E user_input \in CompletionUtterances, outcome \in CompletionCheckOutcomes :
            CompletionCheckTurn(user_input, outcome)

FormCollectionTurn(user_input, outcome) ==
    /\ PhaseIs("form_collection")
    /\ LET r == handle_form_collection_phase(VS, form_data, user_input, outcome)
       IN  /\ voice_state' = << r.state >>
           /\ form_data' = r.form_data
           /\ response' = r.response
    /\ Served("form_collection")
    /\ UNCHANGED << people_tree, place_tree, chosen_labels >>
    /\ UNCHANGED << sponsor_vars, select_vars, cart_vars, fn_vars, tool_vars, tts_vars >>

\* Generation runs in the turn that fills the last field, and in every turn after it.
FormCollectionOutcomes ==
    IF VS.form_field_index + 1 >= Len(VS.form_fields) THEN ShoppingOutcomes ELSE { NotCalled }

voice_input_form_collection ==
    /\ PhaseIs("form_collection")
    /\ \E user_input \in FormUtterances, outcome \in FormCollectionOutcomes :
            FormCollectionTurn(user_input, outcome)

ShoppingListPromptTurn(user_input) ==
    /\ PhaseIs("shopping_list_readout_prompt")
    /\ LET r == handle_shopping_list_prompt(VS, user_input)
       IN  /\ voice_state' = << r.state >>
           /\ response' = r.response
    /\ Served("shopping_list_readout_prompt")
    /\ UNCHANGED << people_tree, place_tree, form_data, chosen_labels >>
    /\ UNCHANGED << sponsor_vars, select_vars, cart_vars, fn_vars, tool_vars, tts_vars >>

voice_input_shopping_list_prompt ==
    \E user_input \in YesNoUtterances : ShoppingListPromptTurn(user_input)

\* The user says yes and the synthesis of the readout raises: the phase
\* written before read_shopping_list stays, /voice-input answers
\* handle_error(str(e)).
voice_input_readout_raises ==
    /\ PhaseIs("shopping_list_readout_prompt")
    /\ \E user_input \in YesNoUtterances :
        /\ extract_yes_no(user_input) = "yes"
        /\ voice_state' = << [ VS EXCEPT !.phase = "shopping_list_readout" ] >>
        /\ response' = Unhandled
    /\ Served("shopping_list_readout_prompt")
    /\ UNCHANGED << people_tree, place_tree, form_data, chosen_labels >>
    /\ UNCHANGED << sponsor_vars, select_vars, cart_vars, fn_vars, tool_vars, tts_vars >>

\* The phases process_voice_input tests for, in its order, and the method
\* it calls for each.
Phases ==
    << "greeting", "event_type", "category_confirmation", "category_selection",
       "subcategory_selection", "completion_check", "form_collection",
       "shopping_list_readout_prompt", "shopping_list_readout",
       "purchase_confirmation", "done" >>

HandlerOf ==
    [ phase \in Range(Phases) |->
        CASE phase = "greeting" -> "handle_greeting_phase"
          [] phase = "event_type" -> "handle_event_type_phase"
          [] phase = "category_confirmation" -> "handle_category_confirmation"
          [] phase = "category_selection" -> "handle_category_selection_phase"
          [] phase = "subcategory_selection" -> "handle_subcategory_selection_phase"
          [] phase = "completion_check" -> "handle_completion_check_phase"
          [] phase = "form_collection" -> "handle_form_collection_phase"
          [] phase = "shopping_list_readout_prompt" -> "handle_shopping_list_prompt"
          [] phase = "shopping_list_readout" -> "handle_shopping_list_readout"
          [] phase = "purchase_confirmation" -> "handle_purchase_confirmation"
          [] phase = "done" -> "handle_done_phase" ]

\* The handle_ methods the class defines.
DefinedHandlers ==
    { "handle_greeting_phase", "handle_event_type_phase", "handle_category_selection_phase",
      "handle_category_confirmation", "handle_subcategory_selection_phase",
      "handle_completion_check_start", "handle_completion_check_phase",
      "handle_form_collection_phase", "handle_shopping_list_prompt",
      "handle_purchase_confirmation", "handle_done_phase", "handle_error" }

UnknownPhase == handle_error("Unknown phase")

\* str(e) of the AttributeError a call of a method the class lacks raises.
NoSuchHandler == "'VoiceAgent' object has no attribute 'handle_shopping_list_readout'"

\* An input while the persisted phase is shopping_list_readout: the method
\* the dispatch names does not exist, the attribute lookup raises and
\* /voice-input answers handle_error(str(e)); the state is as it was.
voice_input_shopping_list_readout ==
    /\ PhaseIs("shopping_list_readout")
    /\ HandlerOf["shopping_list_readout"] \notin DefinedHandlers
    /\ voice_state' = voice_state
    /\ response' = handle_error(NoSuchHandler)
    /\ Served("shopping_list_readout")
    /\ UNCHANGED << people_tree, place_tree, form_data, chosen_labels >>
    /\ UNCHANGED << sponsor_vars, select_vars, cart_vars, fn_vars, tool_vars, tts_vars >>

PurchaseConfirmationTurn(user_input) ==
    /\ PhaseIs("purchase_confirmation")
    /\ LET r == handle_purchase_confirmation(VS, user_input)
       IN  /\ voice_state' = << r.state >>
           /\ response' = r.response
    /\ Served("purchase_confirmation")
    /\ UNCHANGED << people_tree, place_tree, form_data, chosen_labels >>
    /\ UNCHANGED << sponsor_vars, select_vars, cart_vars, fn_vars, tool_vars, tts_vars >>

voice_input_purchase_confirmation ==
    \E user_input \in YesNoUtterances : PurchaseConfirmationTurn(user_input)

voice_input_done ==
    /\ PhaseIs("done")
    /\ LET r == handle_done_phase(VS)
       IN  /\ voice_state' = << r.state >>
           /\ response' = r.response
    /\ Served("done")
    /\ UNCHANGED << people_tree, place_tree, form_data, chosen_labels >>
    /\ UNCHANGED << sponsor_vars, select_vars, cart_vars, fn_vars, tool_vars, tts_vars >>

VoiceNext ==
    \/ start_voice
    \/ voice_input_greeting
    \/ voice_input_event_type
    \/ voice_input_category_selection
    \/ voice_input_category_confirmation
    \/ voice_input_subcategory_selection
    \/ voice_input_completion_check
    \/ voice_input_form_collection
    \/ voice_input_shopping_list_prompt
    \/ voice_input_readout_raises
    \/ voice_input_shopping_list_readout
    \/ voice_input_purchase_confirmation
    \/ voice_input_done

(***************************************************************************)
(* /submit-form and build_cart.                                            *)
(*                                                                         *)
(* Prices are in thousandths of the currency unit, durations in whole      *)
(* hours.  A search hit is what the field parsers read from its content:   *)
(* each field is << >> when the content has no parsable value for it.      *)
(***************************************************************************)
MaxListItems == 2

\* The item names the list generator may emit; "" is what is left of an
\* entry that was a quantity only.
ShoppingItems == { "Bottled Water", "Folding Chairs", "Badge per person", "" }

\* str.strip() on the item names of the model.
Strip(item) == IF item \in { "", " " } THEN "" ELSE item

GeneratedItemLists == UNION { [ 1..n -> ShoppingItems ] : n \in 0..MaxListItems }

NoneFor == [ item \in ShoppingItems |-> << >> ]

\* generate_shopping_list: the items with the price ranges and the
\* quantities found for them (none, or some).
GeneratedLists ==
    { [ items |-> items, price_ranges |-> extras[1], quantities |-> extras[2] ] :
        items \in GeneratedItemLists,
        extras \in { << NoneFor, NoneFor >>,
                     << [ NoneFor EXCEPT !["Folding Chairs"] = << 3000 >> ],
                        [ NoneFor EXCEPT !["Bottled Water"] = << 3 >>,
                                         !["Folding Chairs"] = << 0 >> ] >> } }

FormOf(duration, attendees) ==
    ("duration" :> duration) @@ ("number of attendees" :> attendees)

\* The saved form, as far as build_cart reads it.
FormSamples ==
    { FormOf("", ""), FormOf("6", "about 20 guests"), FormOf("all day", "20") }

\* re.search(r"([0-9]+)", value) on the texts of the model.
FirstNumber(value) ==
    CASE value = "20" -> << 20 >>
      [] value = "about 20 guests" -> << 20 >>
      [] value = "4 hours" -> << 4 >>
      [] value = "6" -> << 6 >>
      [] OTHER -> << >>

\* The loop of _parse_attendees and _parse_duration_hours: the first key
\* whose value is non-empty and holds a number.
RECURSIVE parse_number(_, _)
parse_number(form, keys) ==
    IF keys = << >> THEN << >>
    ELSE LET value == IF Head(keys) \in DOMAIN form THEN form[Head(keys)] ELSE ""
         IN  IF value # "" /\ FirstNumber(value) # << >>
             THEN FirstNumber(value)
             ELSE parse_number(form, Tail(keys))

parse_attendees(form) ==
    parse_number(form, << "number of attendees", "attendees", "guest count", "guests" >>)
\* The duration is a float: the model counts it in half hours.
parse_duration_hours(form) ==
    LET hours == parse_number(form, << "duration", "duration (hours)", "event duration",
                                      "hours" >>)
    IN  IF hours = << >> THEN << >> ELSE << 2 * hours[1] >>

\* _is_consumable and the per-person phrases, on the item names of the model.
is_consumable(item) == item \in { "Bottled Water", "Lunch per person" }
per_person(item) == item \in { "Badge per person", "Lunch per person" }

\* math.ceil(duration_hours / 4)
CeilQuarter_floor(half_hours) == half_hours \div 8
CeilQuarter(half_hours) == (half_hours + 7) \div 8

infer_amount(item, attendees, duration_hours) ==
    IF attendees = << >> \/ attendees = << 0 >> THEN 1
    ELSE LET base == IF per_person(item) \/ is_consumable(item) THEN attendees[1] ELSE 1
         IN  IF is_consumable(item) /\ duration_hours # << >> /\ duration_hours # << 0 >>
             THEN base * (IF CeilQuarter(duration_hours[1]) > 1
                          THEN CeilQuarter(duration_hours[1]) ELSE 1)
             ELSE base

delivery_ms(days) == (IF days > 0 THEN days ELSE 0) * 24 * 60 * 60 * 1000

\* The hit lists a search returns in the model (the search asks for at most
\* five): none, one, several, with and without parsable fields.
HitLists ==
    LET SpringWater ==
            [ name |-> << "Spring Water" >>, price |-> << 1255 >>,
              retailer |-> << "Acme" >>, delivery_days |-> << 5 >>, rating |-> << 3 >> ]
        PartyPack ==
            [ name |-> << "Party Pack" >>, price |-> << 2000 >>,
              retailer |-> << "Bolt" >>, delivery_days |-> << 1 >>, rating |-> << 5 >> ]
        NoFields ==
            [ name |-> << >>, price |-> << >>, retailer |-> << >>,
              delivery_days |-> << >>, rating |-> << >> ]
    IN  { << >>, << SpringWater >>, << SpringWater, PartyPack >>, << NoFields >>,
          << PartyPack, NoFields >> }

\* What one search can come back with: an exception, or a list of hits.
SearchOutcomes ==
    { [ kind |-> "raised", hits |-> << >> ] }
    \cup { [ kind |-> "hits", hits |-> hits ] : hits \in HitLists }

result_to_candidate(query_item, result, attendees, duration_hours, quantity_override, price_fallback, index) ==
    LET name == IF result.name # << >> THEN result.name[1] ELSE query_item
        price == IF result.price # << >> THEN result.price[1]
                 ELSE IF price_fallback # << >> THEN price_fallback[1] ELSE 0
        retailer == IF result.retailer # << >> THEN result.retailer[1]
                    ELSE "Unknown retailer"
        delivery_days == IF result.delivery_days # << >> THEN result.delivery_days[1]
                         ELSE 3
        review_rating == IF result.rating # << >> THEN result.rating[1] ELSE 0
        amount == IF quantity_override # << >> /\ quantity_override[1] > 0
                  THEN quantity_override[1]
                  ELSE infer_amount(query_item, attendees, duration_hours)
    IN  [ detail |-> [ name |-> name, price |-> price, amount |-> amount,
                       retailer |-> retailer, review_rating |-> review_rating,
                       delivery_time_ms |-> delivery_ms(delivery_days) ],
          price |-> price, delivery_days |-> delivery_days, rating |-> review_rating,
          index |-> index ]

\* The CartItem _select_cart_item makes: the details of the four picks.
CartItemOf(cands) ==
    LET picked == select_cart_item(cands)
    IN  [ recommended_item |-> picked.recommended_item.detail,
          cheapest_item |-> picked.cheapest_item.detail,
          best_rating_item |-> picked.best_rating_item.detail,
          fastest_delivery_item |-> picked.fastest_delivery_item.detail ]

\* retailer_items.setdefault(retailer, []).append(entry), the dict kept in
\* insertion order.
SetDefaultAppend(mapping, retailer, entry) ==
    IF \E k \in DOMAIN mapping : mapping[k].retailer = retailer
    THEN [ k \in DOMAIN mapping |->
             IF mapping[k].retailer = retailer
             THEN [ mapping[k] EXCEPT !.item_list = Append(@, entry) ]
             ELSE mapping[k] ]
    ELSE Append(mapping, [ retailer |-> retailer, item_list |-> << entry >> ])

ToolCall(item) == [ type |-> "tool", query |-> item, count |-> 0, success |-> TRUE ]
ToolResult(item, count, success) ==
    [ type |-> "tool_result", query |-> item, count |-> count, success |-> success ]

Missing(acc, item, count) ==
    [ acc EXCEPT !.tool_events = Append(@, ToolResult(item, count, FALSE)),
                 !.missing_items = Append(@, item) ]

LineTotal_unit(detail) == detail.price
LineTotal(detail) == detail.price * detail.amount

\* One pass of the second loop of build_cart.
process_result(acc, item, results, args) ==
    IF results.kind = "raised" THEN Missing(acc, item, 0)
    ELSE IF results.hits = << >> THEN Missing(acc, item, 0)
    ELSE LET cands == [ i \in DOMAIN results.hits |->
                          result_to_candidate(item, results.hits[i], args.attendees,
                                              args.duration_hours, args.quantities[item],
                                              args.price_fallbacks[item], i - 1) ]
             chosen == CartItemOf(cands)
             recommended == chosen.recommended_item
         IN  [ acc EXCEPT
                 !.tool_events = Append(@, ToolResult(item, Len(results.hits), TRUE)),
                 !.cart_items = Append(@, chosen),
                 !.retailer_items =
                     SetDefaultAppend(@, recommended.retailer,
                                      [ item |-> recommended.name ]),
                 !.total_price = @ + LineTotal(recommended) ]

RECURSIVE process_results_stopping(_, _, _, _)
process_results_stopping(entries, results, acc, args) ==
    IF entries = << >> \/ Head(results).kind = "raised" THEN acc
    ELSE process_results_stopping(Tail(entries), Tail(results),
                                  process_result(acc, Head(entries), Head(results), args),
                                  args)

\* for (item, _), results in zip(search_entries, results_list)
RECURSIVE process_results(_, _, _, _)
process_results(entries, results, acc, args) ==
    IF entries = << >> THEN acc
    ELSE process_results(Tail(entries), Tail(results),
                         process_result(acc, Head(entries), Head(results), args), args)

\* round(total_price, 2): to the nearest hundredth, a tie to the even one.
Round2(thousandths) ==
    LET q == thousandths \div 10
        r == thousandths % 10
    IN  IF r < 5 \/ (r = 5 /\ q % 2 = 0) THEN q * 10 ELSE (q + 1) * 10

IsNonBlank(item) == Strip(item) # ""

\* The first loop of build_cart: one query per non-blank item.
SearchEntries(items) == SelectSeq(items, IsNonBlank)

\* The tuple build_cart returns once every search has come back.
build_cart(entries, results, list, form, event_context) ==
    LET args == [ attendees |-> parse_attendees(form),
                  duration_hours |-> parse_duration_hours(form),
                  quantities |-> list.quantities,
                  price_fallbacks |-> list.price_ranges ]
        start == [ cart_items |-> << >>, total_price |-> 0,
                   tool_events |-> [ i \in DOMAIN entries |-> ToolCall(entries[i]) ],
                   missing_items |-> << >>, retailer_items |-> << >> ]
        acc == process_results(entries, results, start, args)
    IN  << [ items |-> acc.cart_items, price |-> Round2(acc.total_price) ],
           acc.tool_events, acc.missing_items, acc.retailer_items, event_context >>

\* The number of names the result of build_cart is unpacked into in submit_form.
SubmitFormTargets == 4

TextEvent(content) == [ type |-> "text", content |-> content ]
ErrorEvent(code) == [ type |-> "error", content |-> code ]

\* What stream_reasoning yields.
ReasoningOutcomes == { << TextEvent("reasoning") >>, << ErrorEvent("SHOPPING_LIST_ERROR") >> }

\* submit_form from the return of build_cart to the end of the stream:
\* the unpacking raises ValueError unless the tuple has SubmitFormTargets
\* elements, and the handler of the generator turns that into an error event.
Deliver(returned, summary) ==
    IF Len(returned) # SubmitFormTargets
    THEN << ErrorEvent("SHOPPING_ERROR") >>
    ELSE << [ type |-> "retailer_offers", content |-> returned[4] ] >>
         \o (IF returned[4] # << >> /\ summary THEN << TextEvent("summary") >> ELSE << >>)
         \o (IF returned[3] # << >> THEN << TextEvent("missing") >> ELSE << >>)
         \o << [ type |-> "cart", content |-> returned[1] ] >>

CartInit ==
    /\ sf_pc = "idle"
    /\ sf_form_data = << >>
    /\ shopping_list = << >>
    /\ search_entries = << >>
    /\ results_list = << >>
    /\ bc_return = << >>
    /\ sf_events = << >>
    /\ completed = << >>

Gathered_as_completed(results, order) == [ k \in DOMAIN results |-> results[order[k]][1] ]

\* What asyncio.gather returns: the results in the order of the awaitables
\* passed to it, whatever the order in which they finished.
Gathered(results, order) == [ i \in DOMAIN results |-> results[i][1] ]

\* POST /submit-form up to the await of the searches: the form is saved, the
\* list generated, the reasoning streamed, and build_cart starts one search
\* per non-blank item.
submit_form_call ==
    /\ sf_pc = "idle"
    /\ \E form \in FormSamples, list \in GeneratedLists, reasoning \in ReasoningOutcomes :
        /\ sf_form_data' = form
        /\ shopping_list' = << list >>
        /\ sf_events' = reasoning
        /\ search_entries' = SearchEntries(list.items)
        /\ results_list' = [ i \in DOMAIN SearchEntries(list.items) |-> << >> ]
    /\ sf_pc' = "gather"
    /\ UNCHANGED << bc_return, completed >>
    /\ UNCHANGED << sponsor_vars, select_vars, voice_vars, fn_vars, tool_vars, tts_vars >>

\* One rag_pipeline.search call comes back, with hits or with an exception.
search_returns ==
    /\ sf_pc = "gather"
    /\ \E i \in DOMAIN results_list, outcome \in SearchOutcomes :
        /\ results_list[i] = << >>
        /\ results_list' = [ results_list EXCEPT ![i] = << outcome >> ]
        /\ completed' = Append(completed, i)
    /\ UNCHANGED << sf_pc, sf_form_data, shopping_list, search_entries, bc_return, sf_events >>
    /\ UNCHANGED << sponsor_vars, select_vars, voice_vars, fn_vars, tool_vars, tts_vars >>

\* asyncio.gather has every result: build_cart runs its second loop and
\* returns, and submit_form runs to the end of its stream.
submit_form_gathered ==
    /\ sf_pc = "gather"
    /\ \A i \in DOMAIN results_list : results_list[i] # << >>
    /\ LET returned == build_cart(search_entries, Gathered(results_list, completed),
                                  shopping_list[1], sf_form_data, "event context")
       IN  /\ bc_return' = << returned >>
           /\ \E summary \in BOOLEAN :
                sf_events' = sf_events \o Deliver(returned, summary)
    /\ sf_pc' = "done"
    /\ UNCHANGED << sf_form_data, shopping_list, search_entries, results_list, completed >>
    /\ UNCHANGED << sponsor_vars, select_vars, voice_vars, fn_vars, tool_vars, tts_vars >>

CartNext ==
    \/ submit_form_call
    \/ search_returns
    \/ submit_form_gathered

(***************************************************************************)
(* The helper functions called on their own, on arguments of any value.    *)
(***************************************************************************)
MaxAttendees == 3
MaxHalfHours == 17
MaxCandidateList == 3
MaxWords == 3
MaxToolItems == 3
MaxSpokenWords == 2
MaxSelected == 3

AmountItems == { "Bottled Water", "Folding Table", "Badge per person", "Lunch per person" }
AttendeeCounts == { << >>, << 50 >> } \cup { << n >> : n \in 0..MaxAttendees }
Durations == { << >> } \cup { << h >> : h \in 0..MaxHalfHours }

InferAmountCalls ==
    { [ fn |-> "infer_amount", item |-> item, attendees |-> attendees,
        duration_hours |-> duration ] :
        item \in AmountItems, attendees \in AttendeeCounts, duration \in Durations }

\* Candidate lists, a candidate occurring twice included, and the utterances
\* read against them with similarities on both sides of the threshold.
CandidateLabels == { "Food", "Drinks", "Music" }
CandidateLists == UNION { [ 1..n -> CandidateLabels ] : n \in 0..MaxCandidateList }
CandidateScoreSamples == { 50, 51, 100 }

FuzzyMatchCalls ==
    UNION { { [ fn |-> "fuzzy_match_categories", user_input |-> user_input,
                categories |-> categories ] :
              user_input \in MatchUtterances(categories, CandidateScoreSamples) } :
            categories \in CandidateLists }

\* Texts of number words, other words (one with a capital) and digits.
TextTokens ==
    { Word("twenty"), Word("five"), Word("one"), Word("hundred"), Word("guests"),
      Word("Main"), Digits(3) }
Texts == UNION { [ 1..n -> TextTokens ] : n \in 0..MaxWords }

WordsToNumbersCalls == { [ fn |-> "words_to_numbers", text |-> text ] : text \in Texts }

\* normalized_items: the entries whose name is not blank.
NormalisedItems(item_list) == SelectSeq(item_list, IsNonBlank)

\* The entries an approved offer lists: the normalised items, or the one
\* stand-in when none is left.
DiscountableItems(normalized_items) ==
    IF normalized_items = << >> THEN << "general supplies" >> ELSE normalized_items

\* Item lists with blank and repeated names, and the draws of the seeded
\* generator: approval, the sampled entry, a percent for every entry.
ToolItemLists == UNION { [ 1..n -> { "item1", "item2", " " } ] : n \in 0..MaxToolItems }
OfferPercentSamples == SampledPercents \cup { 50 }

SponsorshipCalls ==
    UNION { { [ fn |-> "check_retailer_sponsorship", retailer |-> "r1",
                item_list |-> item_list, approved |-> FALSE, pick |-> 1,
                percents |-> << >> ] }
            \cup
            { [ fn |-> "check_retailer_sponsorship", retailer |-> "r1",
                item_list |-> item_list, approved |-> TRUE, pick |-> pick,
                percents |-> percents ] :
              pick \in 1..Len(DiscountableItems(NormalisedItems(item_list))),
              percents \in [ 1..Len(DiscountableItems(NormalisedItems(item_list)))
                               -> OfferPercentSamples ] } :
            item_list \in ToolItemLists }

\* Voice states in subcategory_selection with any selection (a label the
\* tree lacks included) and any cursor, and the trees they are read against.
SelectableLabels == { "Food", "Drinks", "Music" }
SelectionLists == UNION { [ 1..n -> SelectableLabels ] : n \in 0..MaxSelected }

EntryCalls ==
    { [ fn |-> "start_subcategory_selection",
        state |-> [ init_voice_state EXCEPT !.phase = "subcategory_selection",
                                            !.selected_categories = selected,
                                            !.current_category_index = index ],
        tree |-> tree,
        entered_at |-> index ] :
      selected \in SelectionLists, index \in 0..(MaxSelected + 1),
      tree \in GeneratedPeopleTrees }

\* Utterances of up to MaxSpokenWords of the listed words and two others.
SpokenWords == PositiveWords \cup NegativeWords \cup { "maybe", "another" }
YesNoCalls ==
    { [ fn |-> "extract_yes_no", utterance |-> text ] :
        text \in { t \in SUBSET SpokenWords : Cardinality(t) <= MaxSpokenWords } }

FnCalls ==
    InferAmountCalls \cup FuzzyMatchCalls \cup WordsToNumbersCalls \cup SponsorshipCalls
        \cup YesNoCalls \cup EntryCalls

FnIdle ==
    /\ fn_call = << >>
    /\ fn_result = << >>

FnInit ==
    /\ fn_call \in FnCalls
    /\ fn_result = << >>

infer_amount_call ==
    /\ fn_result = << >>
    /\ fn_call # << >>
    /\ fn_call.fn = "infer_amount"
    /\ fn_result' = << infer_amount(fn_call.item, fn_call.attendees, fn_call.duration_hours) >>
    /\ UNCHANGED fn_call
    /\ UNCHANGED << sponsor_vars, select_vars, voice_vars, cart_vars, tool_vars, tts_vars >>

fuzzy_match_categories_call ==
    /\ fn_result = << >>
    /\ fn_call # << >>
    /\ fn_call.fn = "fuzzy_match_categories"
    /\ fn_result' = << fuzzy_match_categories(fn_call.user_input, fn_call.categories) >>
    /\ UNCHANGED fn_call
    /\ UNCHANGED << sponsor_vars, select_vars, voice_vars, cart_vars, tool_vars, tts_vars >>

words_to_numbers_call ==
    /\ fn_result = << >>
    /\ fn_call # << >>
    /\ fn_call.fn = "words_to_numbers"
    /\ fn_result' = << words_to_numbers(fn_call.text) >>
    /\ UNCHANGED fn_call
    /\ UNCHANGED << sponsor_vars, select_vars, voice_vars, cart_vars, tool_vars, tts_vars >>

\* check_retailer_sponsorship with the draws of its generator given.
check_retailer_sponsorship_draws ==
    /\ fn_result = << >>
    /\ fn_call # << >>
    /\ fn_call.fn = "check_retailer_sponsorship"
    /\ fn_result' =
          << IF fn_call.approved
             THEN ApprovedOfferWith(fn_call.retailer,
                                    DiscountableItems(NormalisedItems(fn_call.item_list)),
                                    fn_call.pick, fn_call.percents)
             ELSE RejectedToolOffer(fn_call.retailer) >>
    /\ UNCHANGED fn_call
    /\ UNCHANGED << sponsor_vars, select_vars, voice_vars, cart_vars, tool_vars, tts_vars >>

NextCategory_same(state) == state

\* state["current_category_index"] += 1
NextCategory(state) == [ state EXCEPT !.current_category_index = @ + 1 ]

\* One invocation of start_subcategory_selection on the state dict of the
\* session: it returns the completion question or a prompt, or moves the
\* cursor on and calls itself, which is the next invocation.
start_subcategory_selection_invoked ==
    /\ fn_result = << >>
    /\ fn_call # << >>
    /\ fn_call.fn = "start_subcategory_selection"
    /\ LET state == fn_call.state
           tree == fn_call.tree
       IN  IF state.current_category_index >= Len(state.selected_categories)
           THEN /\ fn_call' = [ fn_call EXCEPT !.state.phase = "completion_check" ]
                /\ fn_result' = << handle_completion_check_start >>
           ELSE LET current_category ==
                        state.selected_categories[state.current_category_index + 1]
                    k == FindNode(tree, current_category)
                IN  IF k = 0 \/ tree[k].children = << >>
                    THEN /\ fn_call' = [ fn_call EXCEPT !.state = NextCategory(state) ]
                         /\ fn_result' = << >>
                    ELSE /\ fn_call' = fn_call
                         /\ fn_result' = << Reply("options", "subcategory_selection",
                                                  Labels(tree[k].children)) >>
    /\ UNCHANGED << sponsor_vars, select_vars, voice_vars, cart_vars, tool_vars, tts_vars >>

extract_yes_no_call ==
    /\ fn_result = << >>
    /\ fn_call # << >>
    /\ fn_call.fn = "extract_yes_no"
    /\ fn_result' = << extract_yes_no(fn_call.utterance) >>
    /\ UNCHANGED fn_call
    /\ UNCHANGED << sponsor_vars, select_vars, voice_vars, cart_vars, tool_vars, tts_vars >>

FnNext ==
    \/ start_subcategory_selection_invoked
    \/ check_retailer_sponsorship_draws
    \/ extract_yes_no_call
    \/ infer_amount_call
    \/ fuzzy_match_categories_call
    \/ words_to_numbers_call

(***************************************************************************)
(* check_retailer_sponsorship, called several times.                       *)
(*                                                                         *)
(* The generator the tool draws from is random.Random(seed) with the seed  *)
(* a SHA-256 digest of its arguments; what a generator of a given seed     *)
(* draws is not computed here: seeded_draws is any one function from seeds *)
(* to draws, fixed for the life of the process.  The module-level          *)
(* generator of random, which the sponsorship stream draws its delays      *)
(* from, is the state global_rng.                                          *)
(***************************************************************************)
MaxToolCalls == 3

EventContexts == { "Wedding. Address: Main Street", "Meetup" }

ToolArguments ==
    { [ retailer |-> "r1", item_list |-> << "item1" >>, event_context |-> "Meetup" ],
      [ retailer |-> "r1", item_list |-> << "item1" >>,
        event_context |-> "Wedding. Address: Main Street" ],
      [ retailer |-> "r2", item_list |-> << "item1", " " >>, event_context |-> "Meetup" ] }

\* seed_text, which the digest maps to the seed (no two texts of the model
\* share a digest).
SeedText(arguments) ==
    << arguments.retailer, NormalisedItems(arguments.item_list), arguments.event_context >>

SeedTexts == { SeedText(arguments) : arguments \in ToolArguments }

\* What a generator draws for one call: approval, and the percent of the
\* discounted entry.
Draws == { [ approved |-> FALSE, percent |-> 0 ] }
         \cup { [ approved |-> TRUE, percent |-> p ] : p \in SampledPercents }

GlobalDraw(state) == [ approved |-> state, percent |-> 5 ]

StableRng_shared(table, seed_text, state) == GlobalDraw(state)

\* _stable_rng(seed_text): a generator of its own, seeded by the text.
StableRng(table, seed_text, state) == table[seed_text]

\* The offer the tool returns with the draws of its generator.
SponsorshipOffer(arguments, draw) ==
    IF draw.approved
    THEN ApprovedToolOffer(arguments.retailer,
                           DiscountableItems(NormalisedItems(arguments.item_list)), 1,
                           draw.percent)
    ELSE RejectedToolOffer(arguments.retailer)

ToolIdle ==
    /\ tool_calls = << >>
    /\ seeded_draws = << >>
    /\ global_rng = FALSE

ToolInit ==
    /\ tool_calls = << >>
    /\ seeded_draws \in [ SeedTexts -> Draws ]
    /\ global_rng = FALSE

\* A call starts, in a worker thread: the arguments are parsed and the
\* generator is seeded.
check_retailer_sponsorship_call ==
    /\ Len(tool_calls) < MaxToolCalls
    /\ \E arguments \in ToolArguments :
        tool_calls' = Append(tool_calls,
            [ arguments |-> arguments,
              rng |-> StableRng(seeded_draws, SeedText(arguments), global_rng),
              started_at |-> global_rng,
              returned |-> << >> ])
    /\ UNCHANGED << seeded_draws, global_rng >>
    /\ UNCHANGED << sponsor_vars, select_vars, voice_vars, cart_vars, fn_vars, tts_vars >>

\* A call draws from its generator and returns its offer.
check_retailer_sponsorship_return ==
    /\ \E i \in DOMAIN tool_calls :
        /\ tool_calls[i].returned = << >>
        /\ tool_calls' =
             [ tool_calls EXCEPT ![i].returned =
                 << SponsorshipOffer(tool_calls[i].arguments, tool_calls[i].rng) >> ]
    /\ UNCHANGED << seeded_draws, global_rng >>
    /\ UNCHANGED << sponsor_vars, select_vars, voice_vars, cart_vars, fn_vars, tts_vars >>

\* random.uniform(2.0, 4.0) in the sponsorship stream: the module-level
\* generator moves on.
random_uniform ==
    /\ global_rng' = ~global_rng
    /\ UNCHANGED << tool_calls, seeded_draws >>
    /\ UNCHANGED << sponsor_vars, select_vars, voice_vars, cart_vars, fn_vars, tts_vars >>

ToolNext ==
    \/ check_retailer_sponsorship_call
    \/ check_retailer_sponsorship_return
    \/ random_uniform

(***************************************************************************)
(* generate_tts and get_cached_audio on the one VoiceAgent of the process. *)
(*                                                                         *)
(* generate_tts looks its key up, awaits the synthesis and stores the      *)
(* audio when the synthesis returns; between the lookup and the store      *)
(* other requests run.                                                     *)
(***************************************************************************)
MaxTtsCalls == 3

PromptTexts == { "What kind of event are you planning?", "Got it!" }

\* hashlib.md5(text).hexdigest(): one key per text (no two texts of the
\* model share a digest).
Md5(text) == << "md5", text >>

AudioIds == { Md5(text) : text \in PromptTexts } \cup { << "md5", "unknown" >> }

\* The audio of the n-th synthesis of a text.
AudioOf(text, n) == << "mp3", text, n >>

TtsInit ==
    /\ tts_cache = << >>
    /\ tts_calls = << >>
    /\ speech_create_count = [ text \in PromptTexts |-> 0 ]
    /\ tts_lookup = << >>

TtsIdle == TtsInit

\* cache_key in self.tts_cache
CacheHit(cache, cache_key) == cache_key \in DOMAIN cache

\* self.tts_cache[cache_key] = audio_bytes
CachePut(cache, cache_key, audio) ==
    [ k \in DOMAIN cache \cup { cache_key } |->
        IF k = cache_key THEN audio ELSE cache[k] ]

\* generate_tts(text) up to its return on a cache hit, or up to the await
\* of the synthesis on a miss.
generate_tts_call ==
    /\ Len(tts_calls) < MaxTtsCalls
    /\ \E text \in PromptTexts :
        IF CacheHit(tts_cache, Md5(text))
        THEN /\ tts_calls' = Append(tts_calls,
                    [ text |-> text, pc |-> "returned", hit |-> TRUE, n |-> 0,
                      audio |-> << tts_cache[Md5(text)] >>,
                      audio_id |-> << Md5(text) >> ])
             /\ UNCHANGED speech_create_count
        ELSE /\ tts_calls' = Append(tts_calls,
                    [ text |-> text, pc |-> "awaiting", hit |-> FALSE,
                      n |-> speech_create_count[text] + 1,
                      audio |-> << >>, audio_id |-> << >> ])
             /\ speech_create_count' =
                    [ speech_create_count EXCEPT ![text] = @ + 1 ]
    /\ UNCHANGED << tts_cache, tts_lookup >>
    /\ UNCHANGED << sponsor_vars, select_vars, voice_vars, cart_vars, fn_vars, tool_vars >>

\* The synthesis of a waiting call returns: the audio is stored under the
\* key and returned with it.
speech_create_returns ==
    /\ \E i \in DOMAIN tts_calls :
        /\ tts_calls[i].pc = "awaiting"
        /\ tts_cache' = CachePut(tts_cache, Md5(tts_calls[i].text),
                                 AudioOf(tts_calls[i].text, tts_calls[i].n))
        /\ tts_calls' = [ tts_calls EXCEPT
                ![i].pc = "returned",
                ![i].audio = << AudioOf(tts_calls[i].text, tts_calls[i].n) >>,
                ![i].audio_id = << Md5(tts_calls[i].text) >> ]
    /\ UNCHANGED << speech_create_count, tts_lookup >>
    /\ UNCHANGED << sponsor_vars, select_vars, voice_vars, cart_vars, fn_vars, tool_vars >>

\* The synthesis of a waiting call raises: generate_tts raises to its caller
\* and stores nothing.
speech_create_raises ==
    /\ \E i \in DOMAIN tts_calls :
        /\ tts_calls[i].pc = "awaiting"
        /\ tts_calls' = [ tts_calls EXCEPT ![i].pc = "raised" ]
    /\ UNCHANGED << tts_cache, speech_create_count, tts_lookup >>
    /\ UNCHANGED << sponsor_vars, select_vars, voice_vars, cart_vars, fn_vars, tool_vars >>

\* get_cached_audio(audio_id): self.tts_cache.get(audio_id).
get_cached_audio_call ==
    /\ \E audio_id \in AudioIds :
        tts_lookup' =
            << [ audio_id |-> audio_id,
                 audio |-> IF audio_id \in DOMAIN tts_cache
                           THEN << tts_cache[audio_id] >> ELSE << >> ] >>
    /\ UNCHANGED << tts_cache, tts_calls, speech_create_count >>
    /\ UNCHANGED << sponsor_vars, select_vars, voice_vars, cart_vars, fn_vars, tool_vars >>

TtsNext ==
    \/ generate_tts_call
    \/ speech_create_returns
    \/ speech_create_raises
    \/ get_cached_audio_call

(***************************************************************************)
(* Specifications.                                                         *)
(***************************************************************************)
SpecSponsorInit == SponsorInit /\ SelectIdle /\ VoiceIdle /\ CartInit /\ FnIdle /\ ToolIdle /\ TtsIdle


SpecSponsor == SpecSponsorInit /\ [][SponsorNext]_vars

SpecSelectInit == SelectInit /\ SponsorInit /\ VoiceIdle /\ CartInit /\ FnIdle /\ ToolIdle /\ TtsIdle

SelectNext == select_cart_item_call

SpecSelect == SpecSelectInit /\ [][SelectNext]_vars

SpecVoiceInit == VoiceIdle /\ SponsorInit /\ SelectIdle /\ CartInit /\ FnIdle /\ ToolIdle /\ TtsIdle

SpecVoice == SpecVoiceInit /\ [][VoiceNext]_vars

SpecCartInit == CartInit /\ SponsorInit /\ SelectIdle /\ VoiceIdle /\ FnIdle /\ ToolIdle /\ TtsIdle

SpecCart == SpecCartInit /\ [][CartNext]_vars

SpecFunctionsInit == FnInit /\ SponsorInit /\ SelectIdle /\ VoiceIdle /\ CartInit /\ ToolIdle /\ TtsIdle

SpecFunctions == SpecFunctionsInit /\ [][FnNext]_vars

\* A call that has started runs on: the interpreter executes it.
SpecFunctionsFair == SpecFunctions /\ WF_vars(FnNext)

SpecToolInit == ToolInit /\ SponsorInit /\ SelectIdle /\ VoiceIdle /\ CartInit /\ FnIdle /\ TtsIdle

SpecTool == SpecToolInit /\ [][ToolNext]_vars

SpecTtsInit == TtsInit /\ SponsorInit /\ SelectIdle /\ VoiceIdle /\ CartInit /\ FnIdle /\ ToolIdle

SpecTts == SpecTtsInit /\ [][TtsNext]_vars

(***************************************************************************)
(* Properties of stream_sponsorship_offers.                                *)
(***************************************************************************)
IsEnd(e) == e.phase = "end"
EndEvents == SelectSeq(events, IsEnd)

AllCallsApproved ==
    /\ retailer_items # << >>
    /\ \A i \in DOMAIN raw_results :
        /\ raw_results[i] # << >>
        /\ raw_results[i][1].kind = "json_object"
        /\ raw_results[i][1].offer.status = "approved"

\* C1: once the stream of a non-empty batch has ended, its end events do not
\* all carry status approved: at least one of them is rejected, whatever the
\* individual calls returned.
C1_NotAllApproved ==
    (sp_pc = "done" /\ retailer_items # << >>) =>
        /\ Len(EndEvents) = Len(retailer_items)
        /\ ~(\A i \in DOMAIN EndEvents : EndEvents[i].offer.status = "approved")
        /\ \E i \in DOMAIN EndEvents : EndEvents[i].offer.status = "rejected"

C1_Witness == sp_pc = "done" /\ AllCallsApproved

\* C2: when two or more retailers were all approved by their calls, the final
\* output has exactly one rejected offer, the first retailer's, with the fixed
\* reason, no discountPercent and no discountedItems; every other offer is
\* what its call returned.
C2_FirstForced ==
    (sp_pc = "done" /\ Len(retailer_items) >= 2 /\ AllCallsApproved) =>
        /\ Len(EndEvents) = Len(retailer_items)
        /\ { i \in DOMAIN EndEvents : EndEvents[i].offer.status = "rejected" } = { 1 }
        /\ EndEvents[1].offer.retailer = retailer_items[1].retailer
        /\ EndEvents[1].offer.reason = ForcedReason
        /\ EndEvents[1].offer.discountPercent = << >>
        /\ EndEvents[1].offer.discountedItems = << >>
        /\ \A i \in 2..Len(EndEvents) : EndEvents[i].offer = raw_results[i][1].offer

C2_Witness == sp_pc = "done" /\ Len(retailer_items) >= 2 /\ AllCallsApproved

(***************************************************************************)
(* Properties of _select_cart_item.                                        *)
(***************************************************************************)
Picked == cart_item[1]

\* c is chosen by min over (primary, price, index): nothing is below it on
\* the primary criterion, and among the candidates tied with it on that
\* criterion none is cheaper, and none as cheap has a lower rank.
BestOn(c, Primary(_)) ==
    \A d \in Range(candidates) :
        /\ Primary(c) <= Primary(d)
        /\ Primary(d) = Primary(c) => c.price <= d.price
        /\ (Primary(d) = Primary(c) /\ d.price = c.price) => c.index <= d.index

PriceOf(c) == c.price
DaysOf(c) == c.delivery_days
NegRatingOf(c) == 0 - c.rating

\* C3: cheapest has the lowest price, fastest the fewest delivery days,
\* bestRating the highest rating; ties on the primary criterion go to the
\* lowest price, then the lowest result rank.
C3_PicksAreExtremal ==
    cart_item # << >> =>
        /\ Picked.cheapest_item \in Range(candidates)
        /\ Picked.fastest_delivery_item \in Range(candidates)
        /\ Picked.best_rating_item \in Range(candidates)
        /\ BestOn(Picked.cheapest_item, PriceOf)
        /\ BestOn(Picked.fastest_delivery_item, DaysOf)
        /\ BestOn(Picked.best_rating_item, NegRatingOf)
        /\ \A d \in Range(candidates) : Picked.best_rating_item.rating >= d.rating

\* A state in which the rating pick is decided by the rating alone: the best
\* rated candidate is neither the cheapest nor the first.
C3_Witness ==
    /\ cart_item # << >>
    /\ Len(candidates) >= 2
    /\ Picked.best_rating_item # Picked.cheapest_item
    /\ Picked.fastest_delivery_item # Picked.cheapest_item
    /\ \E d \in Range(candidates) : d.rating < Picked.best_rating_item.rating

ThreePicks == << Picked.cheapest_item, Picked.fastest_delivery_item, Picked.best_rating_item >>
Votes(c) == Cardinality({ k \in 1..3 : ThreePicks[k] = c })

\* C4: recommended is the candidate picked most often among the three picks,
\* ties going to the lowest price and then the lowest rank; so it is one of
\* the three picks, and it is the cheapest pick when the three are distinct.
C4_RecommendedIsMajority ==
    cart_item # << >> =>
        /\ Picked.recommended_item \in Range(ThreePicks)
        /\ \A d \in Range(candidates) :
            /\ Votes(Picked.recommended_item) >= Votes(d)
            /\ Votes(d) = Votes(Picked.recommended_item) =>
                    Picked.recommended_item.price <= d.price
            /\ (Votes(d) = Votes(Picked.recommended_item)
                    /\ d.price = Picked.recommended_item.price) =>
                    Picked.recommended_item.index <= d.index
        /\ Cardinality(Range(ThreePicks)) = 3 =>
                Picked.recommended_item = Picked.cheapest_item

\* Two picks agree on a candidate that is not the cheapest: the majority
\* decides against the price.
C4_Witness ==
    /\ cart_item # << >>
    /\ Picked.fastest_delivery_item = Picked.best_rating_item
    /\ Picked.fastest_delivery_item # Picked.cheapest_item
    /\ Picked.recommended_item = Picked.fastest_delivery_item

(***************************************************************************)
(* Properties of the voice flow: category selection and confirmation.      *)
(***************************************************************************)
After == voice_state'[1]

CategoryTurnUtterances == MatchUtterances(Labels(people_tree), CategoryScoreSamples)

HasChildren(label) ==
    \E i \in DOMAIN people_tree :
        people_tree[i].label = label /\ people_tree[i].children # << >>

\* Where the walk over the chosen categories stops: before the first one
\* that has children to choose from, or behind the last one.
EntryIndex(chosen) ==
    LET with == { i \in DOMAIN chosen : HasChildren(chosen[i]) }
    IN  IF with = { } THEN Len(chosen)
        ELSE (CHOOSE i \in with : \A j \in with : i <= j) - 1

EnteredAtFirst(chosen) ==
    /\ After.selected_categories = chosen
    /\ After.current_category_index = 0
    /\ After.phase = "subcategory_selection"

EnteredSkippingChildless(chosen) ==
    /\ After.selected_categories = chosen
    /\ After.current_category_index = EntryIndex(chosen)
    /\ After.phase = IF EntryIndex(chosen) < Len(chosen)
                     THEN "subcategory_selection" ELSE "completion_check"
    /\ response'.phase = After.phase

\* The three branches of a category_selection turn; Entered says where the
\* accepted labels lead.
CategorySelectionOutcome(user_input, Entered(_)) ==
    LET matches == fuzzy_match_categories(user_input, Labels(people_tree))
        Above70(m) == m.score > 70
        above70 == Categories(SelectSeq(matches, Above70))
    IN  /\ \A i \in DOMAIN matches :
            matches[i].category \in user_input.contains => matches[i].score = 100
        /\ \A label \in user_input.contains \cap Range(Labels(people_tree)) :
            label \in Range(Categories(matches))
        /\ IF matches # << >> /\ \A i \in DOMAIN matches : matches[i].score >= 95
           THEN /\ Entered(Categories(matches))
                /\ After.pending_confirmation = VS.pending_confirmation
           ELSE IF above70 # << >>
           THEN /\ After = [ VS EXCEPT !.pending_confirmation = << above70 >>,
                                       !.phase = "category_confirmation" ]
                /\ response'.phase = "category_confirmation"
           ELSE /\ After = VS
                /\ response'.phase = "category_selection"

ConfirmationOutcome(user_input, Entered(_)) ==
    LET yes == AnyOccurs({ "yes", "yeah", "yep", "sure", "correct", "right", "ok", "okay" },
                         user_input)
        no == AnyOccurs({ "no", "nope", "nah", "incorrect", "wrong" }, user_input)
    IN  IF yes
        THEN /\ Entered(VS.pending_confirmation[1])
             /\ After.pending_confirmation = << >>
        ELSE IF no
        THEN /\ After = [ VS EXCEPT !.pending_confirmation = << >>,
                                    !.phase = "category_selection" ]
             /\ response'.phase = "category_selection"
        ELSE /\ After = VS
             /\ response'.phase = "category_confirmation"

SubcategoryTurnUtterances == MatchUtterances(CurrentChildren, SubcategoryScoreSamples)

\* What a subcategory turn must leave behind, read off the utterance's
\* scores against the children of the current category.
SubcategoryOutcome(user_input) ==
    LET current == VS.selected_categories[VS.current_category_index + 1]
        k == CHOOSE i \in DOMAIN people_tree : people_tree[i].label = current
        children == people_tree[k].children
        Score(j) == IF children[j].label \in user_input.contains THEN 100
                    ELSE user_input.ratio[children[j].label]
        matching == { j \in DOMAIN children : Score(j) > 50 }
        above60 == { j \in matching : Score(j) > 60 }
        best == CHOOSE j \in matching :
                    \A i \in matching : Score(j) > Score(i) \/ (Score(j) = Score(i) /\ j <= i)
        matched == IF above60 # { } THEN above60 ELSE { best }
    IN  IF matching # { }
        THEN /\ Len(people_tree') = Len(people_tree)
             /\ \A i \in DOMAIN people_tree : i # k => people_tree'[i] = people_tree[i]
             /\ people_tree'[k].label = current
             /\ people_tree'[k].selected = TRUE
             /\ Len(people_tree'[k].children) = Len(children)
             /\ \A j \in DOMAIN children :
                 /\ people_tree'[k].children[j].label = children[j].label
                 /\ people_tree'[k].children[j].children = children[j].children
                 /\ people_tree'[k].children[j].selected =
                        (children[j].selected \/ j \in matched)
             /\ After.selected_categories = VS.selected_categories
             /\ After.current_category_index > VS.current_category_index
             /\ After.current_category_index <= Len(VS.selected_categories)
             /\ After.phase = "completion_check" <=>
                    After.current_category_index >= Len(After.selected_categories)
             /\ After.phase \in { "completion_check", "subcategory_selection" }
             /\ [ After EXCEPT !.phase = VS.phase,
                               !.current_category_index = VS.current_category_index ] = VS
        ELSE /\ voice_state' = voice_state
             /\ people_tree' = people_tree
             /\ After.phase = "subcategory_selection"
             /\ response'.phase = "subcategory_selection"

\* C7: a subcategory_selection turn that matches a child of the current
\* category selects exactly the children scoring > 60 (or, if there is
\* none, the single best match) and the category node, changes no other
\* selected flag, moves current_category_index past the current category,
\* and ends in completion_check exactly when the index has exhausted
\* selected_categories; a turn that matches nothing changes nothing.
C7_MarksMatchedChildren ==
    [][PhaseIs("subcategory_selection") =>
           \A user_input \in SubcategoryTurnUtterances :
               SubcategorySelectionTurn(user_input) => SubcategoryOutcome(user_input)]_vars

\* A turn selected one child of two by the best-match fallback or by the
\* threshold, left the sibling alone, and went on to the next category.
C7_Witness ==
    /\ last_request = [ op |-> "voice_input", phase |-> "subcategory_selection" ]
    /\ VS.phase = "subcategory_selection"
    /\ VS.current_category_index > 0
    /\ \E i \in DOMAIN people_tree :
        /\ people_tree[i].selected
        /\ Len(people_tree[i].children) = 2
        /\ people_tree[i].children[1].selected # people_tree[i].children[2].selected

(***************************************************************************)
(* Properties of the voice flow: the completion check.                     *)
(***************************************************************************)
SaysDone(user_input) ==
    AnyOccurs({ "done", "proceed", "ready", "continue", "yes", "finish" }, user_input)

SaysRemaining(user_input) ==
    AnyOccurs({ "remaining", "rest", "other", "more categories", "what else" }, user_input)

SaysAdd(user_input) == AnyOccurs({ "add", "more", "another", "also" }, user_input)

AsksFirstField ==
    /\ After = [ VS EXCEPT !.phase = "form_collection", !.form_field_index = 0 ]
    /\ response'.phase = "form_collection"
    /\ response'.listed = << "Address" >>

\* C8 as stated: in completion_check every utterance containing done,
\* proceed, ready, continue, yes or finish ends in form_collection with
\* form_field_index 0 and asks for the first form field.
C8_DoneWordStartsForm ==
    [][PhaseIs("completion_check") =>
           \A user_input \in CompletionUtterances, outcome \in CompletionCheckOutcomes :
               (CompletionCheckTurn(user_input, outcome) /\ SaysDone(user_input))
                   => AsksFirstField]_vars

\* C8, amended: the same, for the utterances that contain none of
\* remaining, rest, other, more categories, what else, add, more, another,
\* also; those words are tested first and win.
C8_DoneWordAloneStartsForm ==
    [][PhaseIs("completion_check") =>
           \A user_input \in CompletionUtterances, outcome \in CompletionCheckOutcomes :
               (/\ CompletionCheckTurn(user_input, outcome)
                /\ SaysDone(user_input)
                /\ ~SaysRemaining(user_input)
                /\ ~SaysAdd(user_input))
                   => AsksFirstField]_vars

C8_Witness ==
    /\ last_request = [ op |-> "voice_input", phase |-> "completion_check" ]
    /\ VS.phase = "form_collection"
    /\ VS.form_field_index = 0
    /\ response.listed = << "Address" >>

\* The top-level categories no selection round of this flow has accepted.
NeverChosen ==
    LET Fresh(node) == node.label \notin chosen_labels
    IN  Labels(SelectSeq(people_tree, Fresh))

\* C9: in completion_check, an utterance asking for the remaining
\* categories relists exactly the top-level categories that no earlier
\* selection round of this flow has selected and, there being any, ends in
\* category_selection.
C9_RelistsNeverChosen ==
    [][PhaseIs("completion_check") =>
           \A user_input \in CompletionUtterances, outcome \in CompletionCheckOutcomes :
               (CompletionCheckTurn(user_input, outcome) /\ SaysRemaining(user_input))
                   => /\ response'.listed = NeverChosen
                      /\ NeverChosen # << >> => After.phase = "category_selection"]_vars

\* A second selection round has been accepted.
C9_SecondRound ==
    /\ voice_state # << >>
    /\ VS.phase = "completion_check"
    /\ Range(VS.selected_categories) # chosen_labels

(***************************************************************************)
(* Properties of the voice flow: form collection.                          *)
(***************************************************************************)
\* "Main Street twenty five", lower-cased and with its number words folded.
Normalised == << Word("main"), Word("street"), Digits(25) >>

FilledUpTo(fields, n) ==
    /\ Len(fields) = 5
    /\ \A j \in 1..5 :
        /\ fields[j].label = FormLabels[j]
        /\ fields[j].value = IF j <= n THEN << Normalised >> ELSE << >>

Persisted ==
    /\ Len(form_data') = 5
    /\ \A j \in 1..5 : form_data'[j] = [ key |-> FormKeys[j], content |-> Normalised ]

ListGenerated(outcome) ==
    /\ After.phase = "shopping_list_readout_prompt"
    /\ After.shopping_list_generated
    /\ After.shopping_list_items = outcome.items
    /\ After.cart = << outcome.cart >>
    /\ response'.phase = "shopping_list_readout_prompt"

GenerationFailed ==
    /\ After.phase = "form_collection"
    /\ ~After.shopping_list_generated
    /\ After.cart = << >>
    /\ response'.phase = "error"

\* One input of form_collection while a field is still open; Fifth says what
\* the input that fills the last field leads to.
FormOutcome(outcome, Fifth(_)) ==
    LET n == VS.form_field_index
    IN  n < 5 =>
            /\ FilledUpTo(VS.form_fields, n)
            /\ FilledUpTo(After.form_fields, n + 1)
            /\ After.form_field_index = n + 1
            /\ IF n < 4
               THEN /\ After.phase = "form_collection"
                    /\ response'.phase = "form_collection"
                    /\ response'.listed = << FormLabels[n + 2] >>
                    /\ form_data' = form_data
               ELSE /\ Persisted
                    /\ Fifth(outcome)

FifthOutcome(outcome) ==
    IF outcome.kind = "raises" THEN GenerationFailed ELSE ListGenerated(outcome)

SaysYes(user_input) ==
    AnyOccurs({ "yes", "yeah", "yep", "sure", "correct", "right", "ok", "okay" }, user_input)

SaysNo(user_input) ==
    ~SaysYes(user_input)
    /\ AnyOccurs({ "no", "nope", "nah", "incorrect", "wrong" }, user_input)

\* The names of the recommended items of the stored cart, in cart order.
CartNames == [ i \in DOMAIN VS.cart[1].items |-> VS.cart[1].items[i].name ]

C12_PurchaseConfirmation ==
    [][PhaseIs("purchase_confirmation") =>
           \A user_input \in YesNoUtterances :
               PurchaseConfirmationTurn(user_input) =>
                   IF SaysYes(user_input)
                   THEN /\ After = [ VS EXCEPT !.phase = "done" ]
                        /\ response' = Reply("purchase was successful", "done", << >>)
                   ELSE IF SaysNo(user_input)
                   THEN /\ After = [ VS EXCEPT !.phase = "done" ]
                        /\ response' = Reply("saved for later", "done", << >>)
                   ELSE /\ After = VS
                        /\ After.phase = "purchase_confirmation"
                        /\ response'.phase = "purchase_confirmation"]_vars

\* The purchase was declined and the session is done.
C12_Witness ==
    /\ last_request = [ op |-> "voice_input", phase |-> "purchase_confirmation" ]
    /\ VS.phase = "done"
    /\ response.text = "saved for later"

\* C13: once the persisted phase is done, a voice input changes nothing of
\* the session (voice state, trees, form) and is answered with phase done.
\* Only start_voice, which is no voice input, leaves done.
C13_DoneIsTerminal ==
    [][(PhaseIs("done") /\ ~start_voice) =>
           /\ voice_state' = voice_state
           /\ people_tree' = people_tree
           /\ place_tree' = place_tree
           /\ form_data' = form_data
           /\ response'.phase = "done"
           /\ last_request' = [ op |-> "voice_input", phase |-> "done" ]]_vars

\* A voice input was served in done.
C13_Witness ==
    /\ last_request = [ op |-> "voice_input", phase |-> "done" ]
    /\ VS.phase = "done"
    /\ response.text = "session is complete"

C15_ErrorTurnChangesNothing ==
    [][response'.phase = "error" =>
           /\ voice_state' = voice_state
           /\ people_tree' = people_tree
           /\ place_tree' = place_tree
           /\ form_data' = form_data]_vars

\* Tree generation raised, and the description given in that turn is stored.
C15_Witness ==
    /\ response = handle_error("Failed to generate event plan")
    /\ VS.phase = "event_type"
    /\ VS.event_description = << "birthday party" >>

(***************************************************************************)
(* Properties of the voice flow: the event_type turn.                      *)
(***************************************************************************)
EventTurnDraws ==
    { << user_input, first, retry >> :
          user_input \in EventDescriptions, first \in TreeOutcomes,
          retry \in TreeOutcomes \cup { NoTrees } }

Drawn(draw) ==
    /\ draw[3] \in RetryOutcomes(draw[2])
    /\ EventTypeTurn(draw[1], draw[2], draw[3])

CategoriesError ==
    handle_error("I couldn't generate categories")

\* C16: in event_type, when the first tree generation returns a people tree
\* without categories, the generation is run a second time, and the
\* could-not-generate-categories error is answered only if the people tree
\* of that second run has no categories either.
C16_RetriesOnZeroCategories ==
    [][PhaseIs("event_type") =>
           \A draw \in EventTurnDraws :
               (Drawn(draw) /\ draw[2].kind = "ok" /\ draw[2].people_tree = << >>) =>
                   /\ draw[3].kind # "not called"
                   /\ response' = CategoriesError =>
                          (draw[3].kind = "ok" /\ draw[3].people_tree = << >>)]_vars

\* The categories error was answered while a place tree had been generated
\* and stored.
C16_Witness ==
    /\ last_request = [ op |-> "voice_input", phase |-> "event_type" ]
    /\ response = CategoriesError
    /\ people_tree = << >>
    /\ place_tree # << >>

\* What the turn got from the generator: the first run's trees, or the
\* second run's when a second run was made.
Got(draw) == IF draw[3].kind = "not called" THEN draw[2] ELSE draw[3]

StoresTreesAndLists(draw, labels) ==
    /\ After.phase = "category_selection"
    /\ After.event_description = << draw[1] >>
    /\ people_tree' = Got(draw).people_tree
    /\ place_tree' = Got(draw).place_tree
    /\ response'.phase = "category_selection"
    /\ response'.listed = labels

Items == shopping_list[1].items
Returned == bc_return[1]
ReturnedCart == Returned[1]
ReturnedMissing == Returned[3]

\* The search outcome of the item at position i of the list: its query is
\* the one issued for the i-th item, counting the non-blank ones only.
EntryOf(i) == Cardinality({ j \in 1..i : IsNonBlank(Items[j]) })
OutcomeOf(i) == results_list[EntryOf(i)][1]
HasHit(i) == IsNonBlank(Items[i]) /\ OutcomeOf(i).kind = "hits" /\ OutcomeOf(i).hits # << >>
ItemsWithHits == { i \in DOMAIN Items : HasHit(i) }
ItemsWithoutHits == { i \in DOMAIN Items : IsNonBlank(Items[i]) /\ ~HasHit(i) }

\* The place in the cart of the item at position i, and the names a
\* product found for it can carry.
CartPosition(i) == Cardinality({ j \in 1..i : HasHit(j) })
ProductNames(i) ==
    { IF OutcomeOf(i).hits[h].name = << >> THEN Items[i] ELSE OutcomeOf(i).hits[h].name[1] :
        h \in DOMAIN OutcomeOf(i).hits }

RecommendedTotals ==
    [ k \in DOMAIN ReturnedCart.items |->
        ReturnedCart.items[k].recommended_item.price
        * ReturnedCart.items[k].recommended_item.amount ]

\* C18: the cart build_cart returns holds exactly one CartItem for each
\* non-blank item whose search returned at least one hit, and its price is
\* the sum over the CartItems of recommended price times recommended amount,
\* rounded to 2 decimals.
C18_CartOfItemsWithHits ==
    bc_return # << >> =>
        /\ Len(ReturnedCart.items) = Cardinality(ItemsWithHits)
        /\ \A i \in ItemsWithHits :
              ReturnedCart.items[CartPosition(i)].recommended_item.name \in ProductNames(i)
        /\ ReturnedCart.price = Round2(SumSeq(RecommendedTotals))

\* A cart of two items, one of them bought more than once, whose total
\* had to be rounded.
C18_Witness ==
    /\ bc_return # << >>
    /\ Cardinality(ItemsWithHits) = 2
    /\ \E k \in DOMAIN ReturnedCart.items : ReturnedCart.items[k].recommended_item.amount > 1
    /\ ReturnedCart.price # SumSeq(RecommendedTotals)

AllItemsHaveHits == \A i \in DOMAIN Items : IsNonBlank(Items[i]) => HasHit(i)
NonBlankItems == { i \in DOMAIN Items : IsNonBlank(Items[i]) }

\* C19: when every non-blank item of the generated list has at least one
\* search hit, the stream of /submit-form ends with a cart of exactly one
\* CartItem per non-blank item, and not with an error event.
C19_SubmitFormDeliversCart ==
    (sf_pc = "done" /\ AllItemsHaveHits) =>
        /\ Last(sf_events).type = "cart"
        /\ Len(Last(sf_events).content.items) = Cardinality(NonBlankItems)

\* A submission of two items, both found: build_cart returned a cart of
\* two CartItems, and the stream ended with the error event.
C19_Witness ==
    /\ sf_pc = "done"
    /\ AllItemsHaveHits
    /\ Cardinality(NonBlankItems) = 2
    /\ Len(ReturnedCart.items) = 2
    /\ Last(sf_events) = ErrorEvent("SHOPPING_ERROR")
    /\ \A k \in DOMAIN sf_events : sf_events[k].type # "cart"

\* The place in missing_items of the item at position i of the list.
MissingPosition(i) == Cardinality({ j \in 1..i : j \in ItemsWithoutHits })

\* C20: of the cart and missing_items that build_cart returns, every
\* non-blank item is in exactly one: an item whose search found something
\* is one CartItem and no missing entry, an item whose search raised or
\* found nothing is one missing entry and no CartItem, whatever happened
\* to the items before it.
C20_EveryItemInCartOrMissing ==
    bc_return # << >> =>
        /\ Len(ReturnedCart.items) = Cardinality(ItemsWithHits)
        /\ Len(ReturnedMissing) = Cardinality(ItemsWithoutHits)
        /\ \A i \in ItemsWithHits :
              ReturnedCart.items[CartPosition(i)].recommended_item.name \in ProductNames(i)
        /\ \A i \in ItemsWithoutHits : ReturnedMissing[MissingPosition(i)] = Items[i]

\* The first search raised and the second item is in the cart all the same.
C20_Witness ==
    /\ bc_return # << >>
    /\ Len(Items) = 2
    /\ NonBlankItems = { 1, 2 }
    /\ OutcomeOf(1).kind = "raised"
    /\ HasHit(2)
    /\ ReturnedMissing = << Items[1] >>
    /\ Len(ReturnedCart.items) = 1

\* The CartItem build_cart makes of the hits of the item at position i.
CartItemFor(i) ==
    CartItemOf([ h \in DOMAIN OutcomeOf(i).hits |->
                   result_to_candidate(Items[i], OutcomeOf(i).hits[h],
                                       parse_attendees(sf_form_data),
                                       parse_duration_hours(sf_form_data),
                                       shopping_list[1].quantities[Items[i]],
                                       shopping_list[1].price_ranges[Items[i]], h - 1) ])

\* C21: build_cart uses no result before every search has come back, and
\* whatever the order in which the searches came back, the CartItems and
\* the missing items stand in the order of their queries in the item list,
\* each made of the result of its own query.
C21_JoinedAndInQueryOrder ==
    /\ [][bc_return' # bc_return =>
            \A i \in DOMAIN results_list : results_list[i] # << >>]_vars
    /\ [](bc_return # << >> =>
            /\ \A i \in ItemsWithHits :
                  /\ CartPosition(i) \in DOMAIN ReturnedCart.items
                  /\ ReturnedCart.items[CartPosition(i)] = CartItemFor(i)
            /\ \A i \in ItemsWithoutHits :
                  /\ MissingPosition(i) \in DOMAIN ReturnedMissing
                  /\ ReturnedMissing[MissingPosition(i)] = Items[i])

\* The second search came back first; the two items differ and both are
\* in the cart, with different CartItems.
C21_Witness ==
    /\ bc_return # << >>
    /\ completed = << 2, 1 >>
    /\ ItemsWithHits = { 1, 2 }
    /\ Items[1] # Items[2]
    /\ OutcomeOf(1) # OutcomeOf(2)
    /\ ReturnedCart.items[1] # ReturnedCart.items[2]

(***************************************************************************)
(* Properties of the helper functions.                                     *)
(***************************************************************************)
Returns(fn) == fn_result # << >> /\ fn_call.fn = fn

\* ceil(duration / 4) for a duration counted in half hours: the least
\* number of four-hour spans that cover it.
SpansOf(half_hours) ==
    CHOOSE n \in 0..half_hours : 8 * n >= half_hours /\ \A m \in 0..(n - 1) : 8 * m < half_hours

\* The amount by the four cases, for a call whose attendee count counts
\* as unknown when Unknown(attendees) holds.
AmountByCases(call, Unknown(_)) ==
    IF Unknown(call.attendees) THEN 1
    ELSE IF is_consumable(call.item) /\ call.duration_hours # << >>
    THEN call.attendees[1] * (IF SpansOf(call.duration_hours[1]) > 1
                              THEN SpansOf(call.duration_hours[1]) ELSE 1)
    ELSE IF is_consumable(call.item) \/ per_person(call.item) THEN call.attendees[1]
    ELSE 1

IsNone(value) == value = << >>
IsNoneOrZero(value) == value = << >> \/ value = << 0 >>

\* C22 (as stated): _infer_amount returns an integer >= 1 which is 1 when no
\* attendee count is known, attendees x max(1, ceil(duration / 4)) for a
\* consumable with a known duration, attendees for a consumable without a
\* duration or a per-person item, and 1 otherwise.
C22_AmountByCases ==
    Returns("infer_amount") =>
        /\ fn_result[1] >= 1
        /\ fn_result[1] = AmountByCases(fn_call, IsNone)

\* C22 (amended): the same, a count of 0 attendees counting as unknown.
C22_AmountByCasesZeroUnknown ==
    Returns("infer_amount") =>
        /\ fn_result[1] >= 1
        /\ fn_result[1] = AmountByCases(fn_call, IsNoneOrZero)

\* 'Bottled Water' for 50 attendees and 8 hours gives 100.
C22_Witness ==
    /\ Returns("infer_amount")
    /\ fn_call.item = "Bottled Water"
    /\ fn_call.attendees = << 50 >>
    /\ fn_call.duration_hours = << 16 >>
    /\ fn_result = << 100 >>

(***************************************************************************)
(* Properties of the sponsorship stream: order and failures.               *)
(***************************************************************************)
AllCallsResolved == \A i \in DOMAIN raw_results : raw_results[i] # << >>

\* C23: the events are start(r1), end(r1), ..., start(rn), end(rn) for the
\* retailers r1..rn in the order of the input mapping, 2n in all when the
\* stream is over (none for an empty mapping), whatever the order in which
\* the calls resolved; no event is yielded before every call has resolved.
C23_PairsInMappingOrder ==
    /\ Len(events) <= 2 * Len(retailer_items)
    /\ \A k \in DOMAIN events :
          /\ events[k].phase = (IF k % 2 = 1 THEN "start" ELSE "end")
          /\ events[k].retailer = retailer_items[(k + 1) \div 2].retailer
    /\ events # << >> => AllCallsResolved
    /\ sp_pc = "done" => Len(events) = 2 * Len(retailer_items)

\* A stream over several retailers that has ended.
C23_Witness ==
    /\ sp_pc = "done"
    /\ Len(retailer_items) >= 2
    /\ Len(events) = 2 * Len(retailer_items)
    /\ events[3].phase = "start"
    /\ events[3].retailer = retailer_items[2].retailer

CallFailed(i) == raw_results[i][1].kind # "json_object"
EveryCallApproved ==
    \A i \in DOMAIN raw_results : ~CallFailed(i) /\ raw_results[i][1].offer.status = "approved"

\* C24: once the results are collected, the offer of a retailer whose call
\* raised or returned no JSON object is a rejection with a diagnostic
\* reason and no discounted items, the offer of every other retailer is the
\* one its call returned (the first one rejected when all were approved),
\* and at the end every retailer has had its start event and its end event.
C24_FailedCallIsRejectedAlone ==
    /\ sp_pc \in { "yield_start", "yield_end" } \/ (sp_pc = "done" /\ retailer_items # << >>) =>
          /\ Len(resolved) = Len(retailer_items)
          /\ \A i \in DOMAIN retailer_items :
                IF CallFailed(i)
                THEN /\ resolved[i].retailer = retailer_items[i].retailer
                     /\ resolved[i].status = "rejected"
                     /\ resolved[i].reason \in { "Tool error", "Invalid tool response" }
                     /\ resolved[i].discountedItems = << >>
                ELSE \/ resolved[i] = raw_results[i][1].offer
                     \/ /\ EveryCallApproved
                        /\ i = 1
                        /\ resolved[i] = Forced(raw_results[i][1].offer)
    /\ sp_pc = "done" =>
          \A i \in DOMAIN retailer_items :
              /\ events[2 * i - 1] = StartEvent(retailer_items[i])
              /\ events[2 * i] = EndEvent(resolved[i])

\* The first call raised, the second was approved and keeps its offer, and
\* both retailers had their two events.
C24_Witness ==
    /\ sp_pc = "done"
    /\ Len(retailer_items) >= 2
    /\ raw_results[1][1].kind = "exception"
    /\ ~CallFailed(2)
    /\ resolved[1].reason = "Tool error"
    /\ resolved[2].status = "approved"
    /\ Len(events) = 2 * Len(retailer_items)

ReturnedIdsRetrievable ==
    \A i \in DOMAIN tts_calls :
        tts_calls[i].audio_id # << >> => tts_calls[i].audio_id[1] \in DOMAIN tts_cache

\* C26: over any sequence of generate_tts calls, overlapping calls of
\* different requests included, the synthesis is invoked at most once for
\* each text, and every audio id returned is a key of the cache, which
\* get_cached_audio looks up.
C26_SynthesisedOncePerText ==
    /\ \A text \in PromptTexts : speech_create_count[text] <= 1
    /\ ReturnedIdsRetrievable

\* Two calls for the same text overlapped while the first synthesis was
\* awaited; both syntheses returned and both callers got the same audio id.
C26_Witness ==
    /\ Len(tts_calls) >= 2
    /\ tts_calls[1].text = tts_calls[2].text
    /\ tts_calls[1].pc = "returned"
    /\ tts_calls[2].pc = "returned"
    /\ ~tts_calls[1].hit
    /\ ~tts_calls[2].hit
    /\ tts_calls[1].audio_id = tts_calls[2].audio_id
    /\ speech_create_count[tts_calls[1].text] = 2

(***************************************************************************)
(* The selection invariant of the trees.                                   *)
(***************************************************************************)
\* C27: in every tree the output builder emits, and in the people tree of
\* the session after every turn of the voice flow, a node with a selected
\* child is selected, at every depth.
C27_SelectedChildSelectsParent ==
    /\ \A tree \in GeneratedPeopleTrees : SelectionClosed(tree)
    /\ SelectionClosed(people_tree)
    /\ SelectionClosed(place_tree)

\* A tree the builder emitted with a selected grandchild, in which the
\* subcategory turn has then marked another child of the same category.
C27_Witness ==
    /\ last_request.phase = "subcategory_selection"
    /\ Len(people_tree) >= 1
    /\ Len(people_tree[1].children) = 2
    /\ Len(people_tree[1].children[1].children) = 1
    /\ people_tree[1].children[1].children[1].selected
    /\ people_tree[1].children[1].selected
    /\ people_tree[1].children[2].selected
    /\ people_tree[1].selected

(***************************************************************************)
(* Properties of fuzzy_match_categories and words_to_numbers.              *)
(***************************************************************************)
\* The score of a candidate: 100 when the utterance contains it, its
\* token-set similarity otherwise.
CandidateScore(user_input, category) ==
    IF category \in user_input.contains THEN 100 ELSE user_input.ratio[category]

Occurrences(s, Test(_)) == Cardinality({ i \in DOMAIN s : Test(s[i]) })

\* C28: fuzzy_match_categories returns exactly the candidates whose score
\* exceeds 50, each entry of the candidate list at most once and with its
\* score (100 when the utterance contains it, the token-set similarity
\* otherwise), ordered by non-increasing score; for an empty candidate list
\* it returns the empty list.
C28_MatchesAboveFifty ==
    Returns("fuzzy_match_categories") =>
        LET user_input == fn_call.user_input
            categories == fn_call.categories
            matches == fn_result[1]
        IN  /\ \A category \in CandidateLabels :
                LET IsIt(c) == c = category
                    Holds(m) == m.category = category
                IN  Occurrences(matches, Holds) =
                        IF /\ category \in Range(categories)
                           /\ CandidateScore(user_input, category) > 50
                        THEN Occurrences(categories, IsIt) ELSE 0
            /\ \A k \in DOMAIN matches :
                matches[k].score = CandidateScore(user_input, matches[k].category)
            /\ \A k \in 1..(Len(matches) - 1) : matches[k].score >= matches[k + 1].score
            /\ categories = << >> => matches = << >>

\* A call whose utterance contains the second of three candidates, is
\* similar above 50 to the third and at exactly 50 to the first: the second
\* and the third are returned, in that order.
C28_Witness ==
    /\ Returns("fuzzy_match_categories")
    /\ fn_call.categories = << "Food", "Drinks", "Music" >>
    /\ fn_call.user_input.contains = { "Drinks" }
    /\ fn_call.user_input.ratio["Food"] = 50
    /\ fn_call.user_input.ratio["Music"] = 51
    /\ fn_result[1] = << [ category |-> "Drinks", score |-> 100 ],
                         [ category |-> "Music", score |-> 51 ] >>

\* The tokens of a text that are neither digits nor number words.
IsOtherToken(token) == ~IsDigit(token) /\ ~IsNumberWord(token)
OtherTokens(text) == SelectSeq(text, IsOtherToken)

\* C29: words_to_numbers replaces the number words of a text by digit
\* tokens and keeps every other token unchanged and in order; 'twenty five
\* guests' becomes '25 guests' and 'one hundred' becomes '100'.
C29_KeepsOtherTokens ==
    Returns("words_to_numbers") =>
        /\ OtherTokens(fn_result[1]) = OtherTokens(fn_call.text)
        /\ \A k \in DOMAIN fn_result[1] : ~IsNumberWord(fn_result[1][k])
        /\ fn_call.text = << Word("twenty"), Word("five"), Word("guests") >>
              => fn_result[1] = << Digits(25), Word("guests") >>
        /\ fn_call.text = << Word("one"), Word("hundred") >>
              => fn_result[1] = << Digits(100) >>

\* 'Main twenty five' has been normalised to 'main 25'.
C29_Witness ==
    /\ Returns("words_to_numbers")
    /\ fn_call.text = << Word("Main"), Word("twenty"), Word("five") >>
    /\ fn_result[1] = << Word("main"), Digits(25) >>

(***************************************************************************)
(* Properties of the voice flow: the dispatch on the persisted phase.      *)
(***************************************************************************)
\* C30: for each of the eleven phases a voice input is dispatched to a
\* handler that exists, so the unknown-phase error is never answered; an
\* input that arrives while the persisted phase is shopping_list_readout
\* has the list read out and moves the machine to purchase_confirmation.
C30_EveryPhaseHasItsHandler ==
    /\ \A phase \in Range(Phases) : HandlerOf[phase] \in DefinedHandlers
    /\ [](response # UnknownPhase)
    /\ [][(PhaseIs("shopping_list_readout") /\ last_request'.op = "voice_input") =>
              /\ response' = read_shopping_list(VS).response
              /\ After.phase = "purchase_confirmation"]_vars

\* The readout failed after the phase was set; the next input found the
\* phase shopping_list_readout, was answered with an error, and the phase
\* is still shopping_list_readout.
C30_Witness ==
    /\ last_request = [ op |-> "voice_input", phase |-> "shopping_list_readout" ]
    /\ PhaseIs("shopping_list_readout")
    /\ response = handle_error(NoSuchHandler)
    /\ VS.cart # << >>

(***************************************************************************)
(* Properties of the offers of check_retailer_sponsorship.                 *)
(***************************************************************************)
PercentSteps == { 5 * k : k \in 1..10 }

\* The shape of an offer whose entries stand for the items `entries`.
OfferShape(offer, entries) ==
    IF offer.status = "approved"
    THEN LET discounted == offer.discountedItems
             n == IF entries = << >> THEN 1 ELSE Len(entries)
         IN  /\ Len(discounted) = n
             /\ IF entries = << >>
                THEN discounted[1].item = "general supplies"
                ELSE \A i \in 1..n : discounted[i].item = entries[i]
             /\ \A i \in 1..n : discounted[i].percent \in PercentSteps \cup { 0 }
             /\ \E i \in 1..n : discounted[i].percent # 0
             /\ offer.discountPercent =
                    << SumSeq([ i \in 1..n |-> discounted[i].percent ]) \div n >>
    ELSE /\ offer.status = "rejected"
         /\ offer.discountedItems = << >>
         /\ offer.discountPercent = << >>

\* C31 as stated: an approved offer has one entry per input item (one
\* 'general supplies' entry for an empty list), every percent in
\* {0, 5, ..., 50}, one of them not 0, and discountPercent the integer part
\* of the mean over all entries; a rejected offer has no entries and no
\* discountPercent.
C31_EntryPerInputItem ==
    Returns("check_retailer_sponsorship") => OfferShape(fn_result[1], fn_call.item_list)

\* C31, amended: the entries are those of the input items whose name is not
\* blank (one 'general supplies' entry when none is left).
C31_EntryPerNamedItem ==
    Returns("check_retailer_sponsorship") =>
        OfferShape(fn_result[1], SelectSeq(fn_call.item_list, IsNonBlank))

\* An approved offer for two named items and a blank one: the second is
\* discounted by 5, the overall discount is 2.
C31_Witness ==
    /\ Returns("check_retailer_sponsorship")
    /\ fn_call.item_list = << "item1", " ", "item2" >>
    /\ fn_result[1].status = "approved"
    /\ fn_result[1].discountedItems =
          << [ item |-> "item1", percent |-> 0 ], [ item |-> "item2", percent |-> 5 ] >>
    /\ fn_result[1].discountPercent = << 2 >>

(***************************************************************************)
(* Properties of extract_yes_no.                                           *)
(***************************************************************************)
\* C32: extract_yes_no answers False to an utterance that is exactly one of
\* the negative words, True to one that is exactly one of the positive
\* words, and None to an utterance that contains none of the listed words.
C32_YesForYesNoForNo ==
    Returns("extract_yes_no") =>
        /\ \A word \in NegativeWords : fn_call.utterance = { word } => fn_result[1] = "no"
        /\ \A word \in PositiveWords : fn_call.utterance = { word } => fn_result[1] = "yes"
        /\ ~AnyOccurs(PositiveWords \cup NegativeWords, fn_call.utterance)
              => fn_result[1] = "unclear"

\* The utterance 'incorrect' has been answered True.
C32_Witness ==
    /\ Returns("extract_yes_no")
    /\ fn_call.utterance = { "incorrect" }
    /\ fn_result[1] = "yes"

(***************************************************************************)
(* Properties of the voice flow: invariants of the persisted state.        *)
(***************************************************************************)
\* C33: after every voice turn whose response phase is not error, the phase
\* of the response is the phase persisted in the voice state.
C33_ResponsePhaseIsPersistedPhase ==
    [][response'.phase # "error" => response'.phase = After.phase]_vars

\* An unclear answer in purchase_confirmation: the response reports the
\* phase the state still holds.
C33_Witness ==
    /\ last_request = [ op |-> "voice_input", phase |-> "purchase_confirmation" ]
    /\ response = Reply("purchase, yes or no", "purchase_confirmation", << >>)
    /\ PhaseIs("purchase_confirmation")

\* C34: in every reachable voice state pending_confirmation is set exactly
\* when the persisted phase is category_confirmation, and when set its
\* items are a non-empty list of top-level labels of the people tree.
C34_PendingIffConfirmation ==
    voice_state # << >> =>
        /\ VS.pending_confirmation # << >> <=> VS.phase = "category_confirmation"
        /\ VS.pending_confirmation # << >> =>
              /\ VS.pending_confirmation[1] # << >>
              /\ Range(VS.pending_confirmation[1]) \subseteq Range(Labels(people_tree))

\* An unclear answer in category_confirmation: two categories are still
\* pending.
C34_Witness ==
    /\ last_request = [ op |-> "voice_input", phase |-> "category_confirmation" ]
    /\ PhaseIs("category_confirmation")
    /\ VS.pending_confirmation # << >>
    /\ Len(VS.pending_confirmation[1]) = 2

\* C35: in every reachable voice state the category cursor lies between 0
\* and the number of selected categories; while the persisted phase is
\* subcategory_selection it is below that number and the category at the
\* cursor is a node of the people tree with at least one child.
C35_CursorInsideSelection ==
    voice_state # << >> =>
        /\ 0 <= VS.current_category_index
        /\ VS.current_category_index <= Len(VS.selected_categories)
        /\ VS.phase = "subcategory_selection" =>
              /\ VS.current_category_index < Len(VS.selected_categories)
              /\ LET k == FindNode(people_tree,
                                   VS.selected_categories[VS.current_category_index + 1])
                 IN  /\ k # 0
                     /\ people_tree[k].children # << >>

\* Two categories were chosen, the first without children: the turn ended
\* in subcategory_selection with the cursor on the second.
C35_Witness ==
    /\ PhaseIs("subcategory_selection")
    /\ Len(VS.selected_categories) = 2
    /\ VS.current_category_index = 1
    /\ people_tree[FindNode(people_tree, VS.selected_categories[1])].children = << >>
    /\ last_request.phase \in { "category_selection", "category_confirmation" }

LatePhases ==
    { "shopping_list_readout_prompt", "shopping_list_readout", "purchase_confirmation", "done" }

\* C36: while the persisted phase is shopping_list_readout_prompt,
\* shopping_list_readout, purchase_confirmation or done, the voice state
\* holds a generated cart and all five form fields have a value; in every
\* earlier phase the cart is null.
C36_CartFromReadoutPromptOn ==
    voice_state # << >> =>
        IF VS.phase \in LatePhases
        THEN /\ VS.cart # << >>
             /\ VS.shopping_list_generated
             /\ Len(VS.form_fields) = 5
             /\ \A i \in DOMAIN VS.form_fields : VS.form_fields[i].value # << >>
        ELSE VS.cart = << >>

\* The generation failed on the fifth input (no cart, phase form_collection
\* with all fields filled) and succeeded on the next.
C36_Witness ==
    /\ last_request = [ op |-> "voice_input", phase |-> "form_collection" ]
    /\ PhaseIs("shopping_list_readout_prompt")
    /\ response = Reply("read it out", "shopping_list_readout_prompt", << >>)
    /\ VS.cart = << WaterCart >>

EarlyPhases ==
    { "event_type", "category_selection", "category_confirmation",
      "subcategory_selection", "completion_check" }

\* C37: without a start-voice reset the dialogue never moves back past
\* form collection: a voice input that finds the persisted phase
\* form_collection or a later one leaves it form_collection or a later one,
\* so none of event_type, category_selection, category_confirmation,
\* subcategory_selection and completion_check is ever persisted again.
C37_NeverBackPastFormCollection ==
    [][(/\ voice_state # << >>
        /\ VS.phase \in LatePhases \cup { "form_collection" }
        /\ last_request'.op = "voice_input") =>
            /\ After.phase \in LatePhases \cup { "form_collection" }
            /\ After.phase \notin EarlyPhases]_vars

\* A voice input in phase done has been answered and the phase is done.
C37_Witness ==
    /\ last_request = [ op |-> "voice_input", phase |-> "done" ]
    /\ PhaseIs("done")
    /\ response.phase = "done"

(***************************************************************************)
(* Properties of the voice flow: creation of the voice state.              *)
(***************************************************************************)
\* A fresh voice state advanced to event_type.
FreshAtEventType ==
    [ phase |-> "event_type",
      event_description |-> << >>,
      selected_categories |-> << >>,
      current_category_index |-> 0,
      pending_confirmation |-> << >>,
      form_fields |-> [ i \in 1..5 |-> [ label |-> FormLabels[i], value |-> << >> ] ],
      form_field_index |-> 0,
      shopping_list_items |-> << >>,
      shopping_list_generated |-> FALSE,
      cart |-> << >> ]

IsEntryCall == fn_call # << >> /\ fn_call.fn = "start_subcategory_selection"

\* The self-calls made so far: one for every increase of the cursor.
SelfCalls == fn_call.state.current_category_index - fn_call.entered_at

OffersChildren(tree, category) ==
    LET k == FindNode(tree, category) IN k # 0 /\ tree[k].children # << >>

\* C39: start_subcategory_selection terminates for every voice state and
\* tree.  Every self-call follows an increase of the cursor by one, so there
\* are at most len(selected_categories) of them; the call returns either
\* the prompt for a category that has children or, with the phase set to
\* completion_check, the completion question, and it returns the latter
\* when no selected category has children.
C39_EntryTerminates ==
    /\ (IsEntryCall ~> fn_result # << >>)
    /\ [](IsEntryCall =>
            /\ 0 <= SelfCalls
            /\ SelfCalls <= Len(fn_call.state.selected_categories))
    /\ [](Returns("start_subcategory_selection") =>
            LET state == fn_call.state
                at_end == state.current_category_index >= Len(state.selected_categories)
            IN  /\ IF at_end
                   THEN /\ state.phase = "completion_check"
                        /\ fn_result[1] = handle_completion_check_start
                   ELSE /\ fn_result[1].phase = "subcategory_selection"
                        /\ OffersChildren(fn_call.tree,
                               state.selected_categories[state.current_category_index + 1])
                /\ (\A i \in DOMAIN state.selected_categories :
                        ~OffersChildren(fn_call.tree, state.selected_categories[i])) => at_end)

\* A call that found three selected categories without children has made
\* three self-calls and has returned in completion_check.
C39_Witness ==
    /\ Returns("start_subcategory_selection")
    /\ fn_call.entered_at = 0
    /\ Len(fn_call.state.selected_categories) = 3
    /\ SelfCalls = 3
    /\ fn_call.state.phase = "completion_check"
    /\ fn_call.tree # << >>
====
